---- MODULE Spec2Model ----
(***************************************************************************)
(* Range-breakout backtester (backtest_nas.py): the session state machine  *)
(* of Backtester.process_morning_session / process_afternoon_session, the  *)
(* trade ledger (open_trade / close_trade) and the run() loop over days.   *)
(*                                                                         *)
(* Units.  Prices are integers in points (self.point is one unit), so the  *)
(* take-profit distance TP_UNITS * self.point is TP_UNITS.  Lot sizes are  *)
(* in hundredths of a lot (LOT_SIZE = 0.01 is 1).  Money is in tenths of a *)
(* dollar: Trade.close computes pips = distance / point / 10 and           *)
(* profit = pips * lot_size * 100, that is distance-in-points * lots-in-   *)
(* hundredths / 10 dollars.  Times are minutes; a timestamp is             *)
(* date * DayMinutes + minute-of-day.                                      *)
(*                                                                         *)
(* Rows of the data frame are drawn when a loop reads them: the range rows *)
(* when calculate_range runs, one entry row per loop iteration.  Prices    *)
(* lie on a grid of PriceStep points, which keeps every scale level an     *)
(* integer, and a row's high and low lie within MaxWick steps of its      *)
(* close.  The morning loop and the afternoon loop each draw the rows    *)
(* they read, so a row at or after AFTERNOON_ENTRY_START that both loops   *)
(* read is drawn twice; the sessions share only balance, all_trades and    *)
(* closed_trades, and the runs of the program are among the runs of this   *)
(* model.                                                                  *)
(***************************************************************************)
EXTENDS Integers, Sequences, FiniteSets, TLC

----------------------------------------------------------------------------
(* Bounds of the model *)

MaxDays == 1    \* trading dates of the run
MaxPrice == 5   \* prices are PriceStep * 1 .. PriceStep * MaxPrice
MaxRows == 4    \* rows read by the candle loops of the run
MaxWick == 1    \* high - close and close - low of a row, in price steps

(* Configuration (backtest_nas.py:19-42) *)

LOT_SIZE == 1
TP_UNITS == 580
MORNING_RANGE_START == 600
MORNING_RANGE_END == 615
AFTERNOON_RANGE_START == 990
AFTERNOON_RANGE_END == 1005
MORNING_ENTRY_START == 615
MORNING_ENTRY_CUTOFF == 989
AFTERNOON_ENTRY_START == 1005
AFTERNOON_EXIT_TIME == 1435
SCALE_LEVELS == <<75, 50, 25>>
INITIAL_BALANCE == 100000
CandleMinutes == 5
DayMinutes == 1440
PriceStep == TP_UNITS

None == -1

----------------------------------------------------------------------------
(* Input domain: candles of the data frame *)

Prices == {PriceStep * k : k \in 1..MaxPrice}

Candles == {c \in [high : Prices, low : Prices, close : Prices] :
              /\ c.low <= c.close /\ c.close <= c.high
              /\ c.high - c.close <= MaxWick * PriceStep
              /\ c.close - c.low <= MaxWick * PriceStep}

(* Rows of a range window: only high and low are read.  They lie strictly  *)
(* inside the price grid, so that a close can break out on either side.    *)
RangePrices == {PriceStep * k : k \in 2..(MaxPrice - 1)}

RangeRows == {c \in [high : RangePrices, low : RangePrices] : c.low <= c.high}

(* Minutes of the rows of a day from the entry start on: the first rows of *)
(* the morning window, the first rows of the afternoon window and the row  *)
(* at the afternoon exit time.                                             *)
MorningRowTimes == {MORNING_ENTRY_START + CandleMinutes * i : i \in 0..(MaxRows - 1)}

AfternoonRowTimes == {AFTERNOON_ENTRY_START + CandleMinutes * i : i \in 0..(MaxRows - 1)}
                       \cup {AFTERNOON_EXIT_TIME}

(* The rows of a day are contiguous inside a window; a window may end      *)
(* early (a gap in the data up to the afternoon window or up to the row at *)
(* the exit time).                                                         *)
NextRowTimes(times, minute) ==
    {t \in times : /\ t > minute
                   /\ \/ t - CandleMinutes = minute
                      \/ t = MORNING_ENTRY_START /\ minute = None
                      \/ t = AFTERNOON_ENTRY_START /\ minute < AFTERNOON_ENTRY_START
                      \/ t = AFTERNOON_EXIT_TIME /\ minute >= AFTERNOON_ENTRY_START}

TimeOnly(t) == t % DayMinutes

Stamp(date, minute) == date * DayMinutes + minute

----------------------------------------------------------------------------
(* Pure helpers *)

RECURSIVE SeqMax(_), SeqMin(_)
SeqMax(s) == IF Len(s) = 1 THEN s[1]
             ELSE LET m == SeqMax(Tail(s)) IN IF s[1] >= m THEN s[1] ELSE m
SeqMin(s) == IF Len(s) = 1 THEN s[1]
             ELSE LET m == SeqMin(Tail(s)) IN IF s[1] <= m THEN s[1] ELSE m

InSeq(x, s) == \E i \in 1..Len(s) : s[i] = x

(* Trade.__init__ *)
Trade(direction, entry_price, entry_time, lot_size, tp_price, trade_type, session) ==
    [direction |-> direction, entry_price |-> entry_price, entry_time |-> entry_time,
     lot_size |-> lot_size, tp_price |-> tp_price, trade_type |-> trade_type,
     session |-> session, exit_price |-> None, exit_time |-> None,
     exit_reason |-> "None", profit |-> 0]

TradeProfit(direction, entry_price, exit_price, lot_size) ==
    IF direction = "BUY" THEN (exit_price - entry_price) * lot_size
    ELSE (entry_price - exit_price) * lot_size

(* Trade.close *)
TradeClose(trade, exit_price, exit_time, exit_reason) ==
    [trade EXCEPT !.exit_price = exit_price, !.exit_time = exit_time,
                  !.exit_reason = exit_reason,
                  !.profit = TradeProfit(trade.direction, trade.entry_price,
                                         exit_price, trade.lot_size)]

(* SessionState.__init__ / SessionState.reset *)
FreshState(session_type) ==
    [session_type |-> session_type, range_high |-> None, range_low |-> None,
     breakout_direction |-> "None", breakout_price |-> None, tp_price |-> None,
     reversal_count |-> 0, scale_levels |-> <<>>, executed_scales |-> <<>>,
     open_trades |-> <<>>, session_start_balance |-> 0,
     session_max_drawdown |-> 0, session_peak_balance |-> 0,
     initial_breakout_done |-> FALSE, breakout_candle_time |-> None]

(* calculate_range that accepts a window of 2 rows *)
CalculateRangeTwoRows(rows) ==
    IF Len(rows) < 2 THEN <<>>
    ELSE <<SeqMax([i \in 1..Len(rows) |-> rows[i].high]),
           SeqMin([i \in 1..Len(rows) |-> rows[i].low])>>

(* calculate_range: None when fewer than 3 rows fall in the window *)
calculate_range(rows) ==
    IF Len(rows) < 3 THEN <<>>
    ELSE <<SeqMax([i \in 1..Len(rows) |-> rows[i].high]),
           SeqMin([i \in 1..Len(rows) |-> rows[i].low])>>

(* calculate_tp with the signs of the two directions swapped *)
CalculateTpSwapped(breakout_price, direction) ==
    IF direction = "BUY" THEN breakout_price - TP_UNITS
    ELSE breakout_price + TP_UNITS

calculate_tp(breakout_price, direction) ==
    IF direction = "BUY" THEN breakout_price + TP_UNITS
    ELSE breakout_price - TP_UNITS

(* calculate_scale_levels with the formulas of the two directions swapped *)
CalculateScaleLevelsSwapped(range_high, range_low, direction, is_reversal) ==
    LET range_size == range_high - range_low
        percentages == IF is_reversal THEN <<50>> ELSE SCALE_LEVELS
    IN  [i \in 1..Len(percentages) |->
            IF direction = "BUY"
            THEN range_low + (percentages[i] * range_size) \div 100
            ELSE range_high - (percentages[i] * range_size) \div 100]

calculate_scale_levels(range_high, range_low, direction, is_reversal) ==
    LET range_size == range_high - range_low
        percentages == IF is_reversal THEN <<50>> ELSE SCALE_LEVELS
    IN  [i \in 1..Len(percentages) |->
            IF direction = "BUY"
            THEN range_high - (percentages[i] * range_size) \div 100
            ELSE range_low + (percentages[i] * range_size) \div 100]

(* check_tp_hit with strict comparisons *)
CheckTpHitStrict(trade, candle) ==
    IF trade.direction = "BUY" THEN candle.high > trade.tp_price
    ELSE candle.low < trade.tp_price

check_tp_hit(trade, candle) ==
    IF trade.direction = "BUY" THEN candle.high >= trade.tp_price
    ELSE candle.low <= trade.tp_price

----------------------------------------------------------------------------
(* Ledger operations.  X is the part of the Backtester one session step    *)
(* works on: X.st the SessionState, X.all = all_trades, X.closed =         *)
(* closed_trades, X.bal = balance.  Trades are objects shared by           *)
(* reference: all_trades holds them, open_trades and closed_trades hold    *)
(* their positions in all_trades.                                          *)

(* open_trade that doubles the lot size once the balance is above          *)
(* INITIAL_BALANCE                                                         *)
OpenTradeSizedByBalance(X, direction, entry_price, entry_time, tp_price, trade_type, session, lot_size) ==
    [X EXCEPT !.all = Append(X.all, Trade(direction, entry_price, entry_time,
                                          IF X.bal > INITIAL_BALANCE THEN 2 * lot_size
                                          ELSE lot_size,
                                          tp_price, trade_type, session))]

open_trade(X, direction, entry_price, entry_time, tp_price, trade_type, session, lot_size) ==
    [X EXCEPT !.all = Append(X.all, Trade(direction, entry_price, entry_time,
                                          lot_size, tp_price, trade_type, session))]

close_trade(X, id, exit_price, exit_time, exit_reason) ==
    LET closed == TradeClose(X.all[id], exit_price, exit_time, exit_reason)
    IN  [X EXCEPT !.all[id] = closed,
                  !.closed = Append(X.closed, id),
                  !.bal = X.bal + closed.profit]

RECURSIVE CloseEach(_, _, _, _, _)
CloseEach(X, ids, exit_price, exit_time, exit_reason) ==
    IF ids = <<>> THEN X
    ELSE CloseEach(close_trade(X, Head(ids), exit_price, exit_time, exit_reason),
                   Tail(ids), exit_price, exit_time, exit_reason)

(* close_all_session_trades without "state.open_trades = []" *)
CloseAllKeepsOpen(X, exit_price, exit_time, exit_reason) ==
    CloseEach(X, X.st.open_trades, exit_price, exit_time, exit_reason)

close_all_session_trades(X, exit_price, exit_time, exit_reason) ==
    LET Y == CloseEach(X, X.st.open_trades, exit_price, exit_time, exit_reason)
    IN  [Y EXCEPT !.st.open_trades = <<>>]

RECURSIVE FloatingSum(_, _, _)
FloatingSum(all, ids, current_price) ==
    IF ids = <<>> THEN 0
    ELSE TradeProfit(all[Head(ids)].direction, all[Head(ids)].entry_price,
                     current_price, all[Head(ids)].lot_size)
         + FloatingSum(all, Tail(ids), current_price)

calculate_floating_pnl(X, current_price) == FloatingSum(X.all, X.st.open_trades, current_price)

RECURSIVE DrawdownOver(_, _, _)
DrawdownOver(X, prices, candle_close) ==
    IF prices = <<>> THEN X
    ELSE LET price == Head(prices)
             current_equity == X.bal + calculate_floating_pnl(X, price)
             peak == IF price = candle_close /\ current_equity > X.st.session_peak_balance
                     THEN current_equity ELSE X.st.session_peak_balance
             drawdown == current_equity - peak
             maxdd == IF drawdown < X.st.session_max_drawdown
                      THEN drawdown ELSE X.st.session_max_drawdown
         IN  DrawdownOver([X EXCEPT !.st.session_peak_balance = peak,
                                    !.st.session_max_drawdown = maxdd],
                          Tail(prices), candle_close)

(* update_session_drawdown that keeps the drawdown of the latest close     *)
(* instead of the most negative one                                        *)
UpdateDrawdownLatest(X, candle_high, candle_low, candle_close) ==
    LET current_equity == X.bal + calculate_floating_pnl(X, candle_close)
        peak == IF current_equity > X.st.session_peak_balance
                THEN current_equity ELSE X.st.session_peak_balance
    IN  [X EXCEPT !.st.session_peak_balance = peak,
                  !.st.session_max_drawdown = current_equity - peak]

(* update_session_drawdown that samples the close only *)
UpdateDrawdownCloseOnly(X, candle_high, candle_low, candle_close) ==
    DrawdownOver(X, <<candle_close>>, candle_close)

update_session_drawdown(X, candle_high, candle_low, candle_close) ==
    DrawdownOver(X, <<candle_high, candle_low, candle_close>>, candle_close)

----------------------------------------------------------------------------
(* One iteration of the candle loop of a session *)

Arm(st, candle, direction) ==
    [st EXCEPT !.breakout_direction = direction,
               !.breakout_price = candle.close,
               !.tp_price = calculate_tp(candle.close, direction),
               !.scale_levels = calculate_scale_levels(st.range_high, st.range_low,
                                                       direction, FALSE),
               !.initial_breakout_done = TRUE,
               !.breakout_candle_time = candle.time]

(* InitialBreakout that arms on a close at the range boundary *)
InitialBreakoutOnTouch(st, candle) ==
    IF candle.close >= st.range_high THEN Arm(st, candle, "BUY")
    ELSE IF candle.close <= st.range_low THEN Arm(st, candle, "SELL")
    ELSE st

(* "Check for initial breakout": no trade is opened here *)
InitialBreakout(st, candle) ==
    IF candle.close > st.range_high THEN Arm(st, candle, "BUY")
    ELSE IF candle.close < st.range_low THEN Arm(st, candle, "SELL")
    ELSE st

(* TakeProfitCheck without "state.open_trades.remove(trade)" *)
TakeProfitKeepsHits(X, candle) ==
    LET Hit(id) == check_tp_hit(X.all[id], candle)
        hits == SelectSeq(X.st.open_trades, Hit)
        Y == CloseEach(X, hits, X.st.tp_price, candle.time, "TP")
    IN  IF hits = <<>> THEN X
        ELSE close_all_session_trades(Y, X.st.tp_price, candle.time, "TP")

(* TakeProfitCheck that ends the session when the take-profit hits *)
TakeProfitEndsSession(X, candle) ==
    LET Hit(id) == check_tp_hit(X.all[id], candle)
        Miss(id) == ~check_tp_hit(X.all[id], candle)
        hits == SelectSeq(X.st.open_trades, Hit)
        rest == SelectSeq(X.st.open_trades, Miss)
        Y == CloseEach(X, hits, X.st.tp_price, candle.time, "TP")
    IN  IF hits = <<>> THEN X
        ELSE close_all_session_trades([Y EXCEPT !.st.open_trades = rest,
                                                !.st.breakout_direction = "None"],
                                      X.st.tp_price, candle.time, "TP")

(* TakeProfitCheck that resets executed_scales when the take-profit hits *)
TakeProfitResetsScales(X, candle) ==
    LET Hit(id) == check_tp_hit(X.all[id], candle)
        Miss(id) == ~check_tp_hit(X.all[id], candle)
        hits == SelectSeq(X.st.open_trades, Hit)
        rest == SelectSeq(X.st.open_trades, Miss)
        Y == CloseEach(X, hits, X.st.tp_price, candle.time, "TP")
    IN  IF hits = <<>> THEN X
        ELSE close_all_session_trades([Y EXCEPT !.st.open_trades = rest,
                                                !.st.executed_scales = <<>>],
                                      X.st.tp_price, candle.time, "TP")

(* "Check for TP hit": the trades that hit are closed first, then the rest *)
TakeProfitCheck(X, candle) ==
    LET Hit(id) == check_tp_hit(X.all[id], candle)
        Miss(id) == ~check_tp_hit(X.all[id], candle)
        hits == SelectSeq(X.st.open_trades, Hit)
        rest == SelectSeq(X.st.open_trades, Miss)
        Y == CloseEach(X, hits, X.st.tp_price, candle.time, "TP")
    IN  IF hits = <<>> THEN X
        ELSE close_all_session_trades([Y EXCEPT !.st.open_trades = rest],
                                      X.st.tp_price, candle.time, "TP")

(* ScaleLotSize with the schedule of the initial ladder turned around *)
ScaleLotSizeReversed(reversal_count, level_index) ==
    IF reversal_count >= 1 THEN LOT_SIZE * 4
    ELSE LOT_SIZE * (2 + level_index)

ScaleLotSize(reversal_count, level_index) ==
    IF reversal_count >= 1 THEN LOT_SIZE * 4
    ELSE LOT_SIZE * (4 - level_index)

(* LevelTriggered with the comparisons turned around *)
LevelTriggeredInverted(direction, level, candle) ==
    IF direction = "BUY" THEN candle.low >= level ELSE candle.high <= level

LevelTriggered(direction, level, candle) ==
    IF direction = "BUY" THEN candle.low <= level ELSE candle.high >= level

(* ScaleCheck that leaves the loop after the first trade it opens *)
RECURSIVE ScaleCheckFirstOnly(_, _, _, _, _)
ScaleCheckFirstOnly(X, i, candle, blocked, session) ==
    IF i > Len(X.st.scale_levels) THEN X
    ELSE LET level == X.st.scale_levels[i]
         IN  IF InSeq(level, X.st.executed_scales)
             THEN ScaleCheckFirstOnly(X, i + 1, candle, blocked, session)
             ELSE IF ~LevelTriggered(X.st.breakout_direction, level, candle)
             THEN ScaleCheckFirstOnly(X, i + 1, candle, blocked, session)
             ELSE IF blocked
             THEN ScaleCheckFirstOnly(X, i + 1, candle, blocked, session)
             ELSE LET Y == open_trade(X, X.st.breakout_direction, level, candle.time,
                                      X.st.tp_price, "SCALE", session,
                                      ScaleLotSize(X.st.reversal_count, i - 1))
                  IN  [Y EXCEPT !.st.open_trades = Append(Y.st.open_trades, Len(Y.all)),
                                !.st.executed_scales = Append(Y.st.executed_scales, level)]

(* "Check for scaling": the for loop over enumerate(state.scale_levels),   *)
(* from the 1-based position i; level_index of the code is i - 1           *)
RECURSIVE ScaleCheck(_, _, _, _, _)
ScaleCheck(X, i, candle, blocked, session) ==
    IF i > Len(X.st.scale_levels) THEN X
    ELSE LET level == X.st.scale_levels[i]
         IN  IF InSeq(level, X.st.executed_scales)
             THEN ScaleCheck(X, i + 1, candle, blocked, session)
             ELSE IF ~LevelTriggered(X.st.breakout_direction, level, candle)
             THEN ScaleCheck(X, i + 1, candle, blocked, session)
             ELSE IF blocked
             THEN ScaleCheck(X, i + 1, candle, blocked, session)
             ELSE LET Y == open_trade(X, X.st.breakout_direction, level, candle.time,
                                      X.st.tp_price, "SCALE", session,
                                      ScaleLotSize(X.st.reversal_count, i - 1))
                      Z == [Y EXCEPT !.st.open_trades = Append(Y.st.open_trades, Len(Y.all)),
                                     !.st.executed_scales = Append(Y.st.executed_scales, level)]
                  IN  ScaleCheck(Z, i + 1, candle, blocked, session)

(* IsReversal on a close at the opposite boundary of the range *)
IsReversalOnTouch(st, candle) ==
    \/ st.breakout_direction = "BUY" /\ candle.close <= st.range_low
    \/ st.breakout_direction = "SELL" /\ candle.close >= st.range_high

IsReversal(st, candle) ==
    \/ st.breakout_direction = "BUY" /\ candle.close < st.range_low
    \/ st.breakout_direction = "SELL" /\ candle.close > st.range_high

NewDirection(st) == IF st.breakout_direction = "BUY" THEN "SELL" ELSE "BUY"

(* Reversal with every opposite close handled like the first one *)
ReversalFlipsAgain(X, candle, blocked) ==
    LET new_direction == NewDirection(X.st)
        Y == IF X.st.open_trades # <<>>
             THEN close_all_session_trades(X, candle.close, candle.time, "REVERSAL")
             ELSE X
    IN  IF blocked
        THEN [Y EXCEPT !.st.breakout_direction = "None"]
        ELSE [Y EXCEPT !.st.reversal_count = Y.st.reversal_count + 1,
                       !.st.breakout_direction = new_direction,
                       !.st.breakout_price = candle.close,
                       !.st.tp_price = calculate_tp(candle.close, new_direction),
                       !.st.scale_levels = calculate_scale_levels(Y.st.range_high,
                                               Y.st.range_low, new_direction, TRUE),
                       !.st.executed_scales = <<>>]

(* Reversal whose first reversal keeps executed_scales *)
ReversalKeepsScales(X, candle, blocked) ==
    LET new_direction == NewDirection(X.st)
        Y == IF X.st.open_trades # <<>>
             THEN close_all_session_trades(X, candle.close, candle.time, "REVERSAL")
             ELSE X
    IN  IF blocked
        THEN [Y EXCEPT !.st.breakout_direction = "None"]
        ELSE IF Y.st.reversal_count = 0
        THEN [Y EXCEPT !.st.reversal_count = Y.st.reversal_count + 1,
                       !.st.breakout_direction = new_direction,
                       !.st.breakout_price = candle.close,
                       !.st.tp_price = calculate_tp(candle.close, new_direction),
                       !.st.scale_levels = calculate_scale_levels(Y.st.range_high,
                                               Y.st.range_low, new_direction, TRUE)]
        ELSE [Y EXCEPT !.st.reversal_count = Y.st.reversal_count + 1,
                       !.st.breakout_direction = "None"]

(* Reversal whose second reversal does not stop the session *)
ReversalNoStop(X, candle, blocked) ==
    LET new_direction == NewDirection(X.st)
        Y == IF X.st.open_trades # <<>>
             THEN close_all_session_trades(X, candle.close, candle.time, "REVERSAL")
             ELSE X
    IN  IF blocked
        THEN [Y EXCEPT !.st.breakout_direction = "None"]
        ELSE IF Y.st.reversal_count = 0
        THEN [Y EXCEPT !.st.reversal_count = Y.st.reversal_count + 1,
                       !.st.breakout_direction = new_direction,
                       !.st.breakout_price = candle.close,
                       !.st.tp_price = calculate_tp(candle.close, new_direction),
                       !.st.scale_levels = calculate_scale_levels(Y.st.range_high,
                                               Y.st.range_low, new_direction, TRUE),
                       !.st.executed_scales = <<>>]
        ELSE [Y EXCEPT !.st.reversal_count = Y.st.reversal_count + 1]

(* Reversal whose first reversal sets up the ladder of an initial breakout *)
ReversalFullLadder(X, candle, blocked) ==
    LET new_direction == NewDirection(X.st)
        Y == IF X.st.open_trades # <<>>
             THEN close_all_session_trades(X, candle.close, candle.time, "REVERSAL")
             ELSE X
    IN  IF blocked
        THEN [Y EXCEPT !.st.breakout_direction = "None"]
        ELSE IF Y.st.reversal_count = 0
        THEN [Y EXCEPT !.st.reversal_count = Y.st.reversal_count + 1,
                       !.st.breakout_direction = new_direction,
                       !.st.breakout_price = candle.close,
                       !.st.tp_price = calculate_tp(candle.close, new_direction),
                       !.st.scale_levels = calculate_scale_levels(Y.st.range_high,
                                               Y.st.range_low, new_direction, FALSE),
                       !.st.executed_scales = <<>>]
        ELSE [Y EXCEPT !.st.reversal_count = Y.st.reversal_count + 1,
                       !.st.breakout_direction = "None"]

(* Reversal that leaves the open trades of the old direction open *)
ReversalKeepsTrades(X, candle, blocked) ==
    LET new_direction == NewDirection(X.st)
        Y == X
    IN  IF blocked
        THEN [Y EXCEPT !.st.breakout_direction = "None"]
        ELSE IF Y.st.reversal_count = 0
        THEN [Y EXCEPT !.st.reversal_count = Y.st.reversal_count + 1,
                       !.st.breakout_direction = new_direction,
                       !.st.breakout_price = candle.close,
                       !.st.tp_price = calculate_tp(candle.close, new_direction),
                       !.st.scale_levels = calculate_scale_levels(Y.st.range_high,
                                               Y.st.range_low, new_direction, TRUE),
                       !.st.executed_scales = <<>>]
        ELSE [Y EXCEPT !.st.reversal_count = Y.st.reversal_count + 1,
                       !.st.breakout_direction = "None"]

(* "if reversal:" up to its continue *)
Reversal(X, candle, blocked) ==
    LET new_direction == NewDirection(X.st)
        Y == IF X.st.open_trades # <<>>
             THEN close_all_session_trades(X, candle.close, candle.time, "REVERSAL")
             ELSE X
    IN  IF blocked
        THEN [Y EXCEPT !.st.breakout_direction = "None"]
        ELSE IF Y.st.reversal_count = 0
        THEN [Y EXCEPT !.st.reversal_count = Y.st.reversal_count + 1,
                       !.st.breakout_direction = new_direction,
                       !.st.breakout_price = candle.close,
                       !.st.tp_price = calculate_tp(candle.close, new_direction),
                       !.st.scale_levels = calculate_scale_levels(Y.st.range_high,
                                               Y.st.range_low, new_direction, TRUE),
                       !.st.executed_scales = <<>>]
        ELSE [Y EXCEPT !.st.reversal_count = Y.st.reversal_count + 1,
                       !.st.breakout_direction = "None"]

SampleDrawdown(X, candle) ==
    IF X.st.open_trades # <<>>
    THEN update_session_drawdown(X, candle.high, candle.low, candle.close)
    ELSE X

(* ManageTrades without the "new candle" guard of the scale check *)
ManageTradesOnAnyCandle(X, candle, blocked, session) ==
    IF X.st.breakout_direction = "None" THEN SampleDrawdown(X, candle)
    ELSE LET X2 == IF X.st.open_trades # <<>> THEN TakeProfitCheck(X, candle) ELSE X
             X3 == ScaleCheck(X2, 1, candle, blocked, session)
         IN  IF IsReversal(X3.st, candle) THEN Reversal(X3, candle, blocked)
             ELSE SampleDrawdown(X3, candle)

(* ManageTrades with the scale check ahead of the take-profit check *)
ManageTradesScaleFirst(X, candle, blocked, session) ==
    IF X.st.breakout_direction = "None" THEN SampleDrawdown(X, candle)
    ELSE LET can_check_scales == ~(X.st.breakout_candle_time # None
                                   /\ candle.time <= X.st.breakout_candle_time)
             X2 == IF can_check_scales THEN ScaleCheck(X, 1, candle, blocked, session)
                   ELSE X
             X3 == IF X2.st.open_trades # <<>> THEN TakeProfitCheck(X2, candle) ELSE X2
         IN  IF IsReversal(X3.st, candle) THEN Reversal(X3, candle, blocked)
             ELSE SampleDrawdown(X3, candle)

(* "Manage existing trades" and the drawdown update that ends the iteration *)
ManageTrades(X, candle, blocked, session) ==
    IF X.st.breakout_direction = "None" THEN SampleDrawdown(X, candle)
    ELSE LET X2 == IF X.st.open_trades # <<>> THEN TakeProfitCheck(X, candle) ELSE X
             can_check_scales == ~(X2.st.breakout_candle_time # None
                                   /\ candle.time <= X2.st.breakout_candle_time)
             X3 == IF can_check_scales THEN ScaleCheck(X2, 1, candle, blocked, session)
                   ELSE X2
         IN  IF IsReversal(X3.st, candle) THEN Reversal(X3, candle, blocked)
             ELSE SampleDrawdown(X3, candle)

(* MorningIteration without the entry cutoff *)
MorningIterationNoCutoff(X, candle) ==
    LET X1 == IF ~X.st.initial_breakout_done
              THEN [X EXCEPT !.st = InitialBreakout(X.st, candle)] ELSE X
    IN  ManageTrades(X1, candle, FALSE, "MORNING")

(* Body of the for loop of process_morning_session *)
MorningIteration(X, candle) ==
    LET can_enter_new == TimeOnly(candle.time) <= MORNING_ENTRY_CUTOFF
        X1 == IF ~X.st.initial_breakout_done /\ can_enter_new
              THEN [X EXCEPT !.st = InitialBreakout(X.st, candle)] ELSE X
    IN  ManageTrades(X1, candle, ~can_enter_new, "MORNING")

(* the exit-time test with a strict comparison *)
PastExitStrict(time) == TimeOnly(time) > AFTERNOON_EXIT_TIME

(* "current_time_only >= AFTERNOON_EXIT_TIME" *)
PastExit(time) == TimeOnly(time) >= AFTERNOON_EXIT_TIME

(* Body of the for loop of process_afternoon_session: the force close at   *)
(* the exit time (followed by break), else the iteration proper            *)
AfternoonIteration(X, candle) ==
    IF PastExit(candle.time)
    THEN IF X.st.open_trades # <<>>
         THEN close_all_session_trades(X, candle.close, candle.time, "TIME_EXIT")
         ELSE X
    ELSE LET X1 == IF ~X.st.initial_breakout_done
                   THEN [X EXCEPT !.st = InitialBreakout(X.st, candle)] ELSE X
         IN  ManageTrades(X1, candle, PastExit(candle.time), "AFTERNOON")

----------------------------------------------------------------------------
(* State of the Backtester *)

(* range_data holds the rows of the range window while calculate_range     *)
(* runs: it is set by the step that begins a session and empty otherwise.  *)
(* df_day holds the rows of the current date from AFTERNOON_RANGE_START on *)
(* in the runs that keep them for the afternoon session (DaySpec below).   *)
(* loops holds, for each session, the stage of its process_*_session call  *)
(* and the index in df_day of the row its loop read last, in the runs that *)
(* load the rows of the day first (ReplaySpec, InterleaveSpec below).      *)
(* report holds the result of generate_statistics (StatsSpec below).       *)
(* The variables of trading_bot.py (LiveSpec below): now is the wall       *)
(* clock, in minutes; wake the time at which the sleep of the main loop    *)
(* ends (now, once it has ended); rates the rows copy_rates_from_pos       *)
(* returns; state the module's TradingState; broker the tickets of the     *)
(* positions open at the broker; calls the order calls of the iteration of *)
(* the main loop that has just run, and fetched the outcome of its         *)
(* get_candles call (both cleared when time passes); processed is the date *)
(* of the last iteration that processed the sessions, None before the      *)
(* first (the code keeps no such date: the properties read it).            *)
VARIABLES pc, date, candle, nrows,
          morning_state, afternoon_state,
          all_trades, closed_trades, balance,
          morning_session_drawdowns, afternoon_session_drawdowns,
          range_data, df_day, loops,
          report,
          now, wake, rates, state, broker, calls, fetched, processed

(* the variables of the Backtester of backtest_nas.py *)
backtestVars == <<pc, date, candle, nrows, morning_state, afternoon_state,
                  all_trades, closed_trades, balance,
                  morning_session_drawdowns, afternoon_session_drawdowns,
                  range_data, df_day, loops>>

(* the variables of the live poller of trading_bot.py *)
liveVars == <<now, wake, rates, state, broker, calls, fetched, processed>>

vars == <<backtestVars, report, liveVars>>

NoCandle == [time |-> None, high |-> None, low |-> None, close |-> None]

Sessions == {"MORNING", "AFTERNOON"}

StateOf(s) == IF s = "MORNING" THEN morning_state ELSE afternoon_state

NoLoops == [s \in Sessions |-> [pc |-> "begin", at |-> 0]]

NoReport == [error |-> "not generated"]

(* None as the value of a range and of a breakout of TradingState *)
NoRange == [high |-> None, low |-> None]

NoBreakout == [direction |-> "None", price |-> None, time |-> None]

(* TradingState.__init__, reset_morning, reset_afternoon *)
FreshTrading ==
    [range |-> NoRange, breakout |-> NoBreakout, reversal_count |-> 0,
     scale_levels |-> <<>>, positions |-> <<>>]

(* the poller has not been started *)
LiveIdle ==
    /\ now = 0
    /\ wake = 0
    /\ rates = <<>>
    /\ state = [s \in Sessions |-> FreshTrading]
    /\ broker = [open |-> {}, next |-> 1]
    /\ calls = <<>>
    /\ fetched = "none"
    /\ processed = None

Init ==
    /\ pc = "run"
    /\ date = 0
    /\ candle = NoCandle
    /\ nrows = 0
    /\ morning_state = FreshState("MORNING")
    /\ afternoon_state = FreshState("AFTERNOON")
    /\ all_trades = <<>>
    /\ closed_trades = <<>>
    /\ balance = INITIAL_BALANCE
    /\ morning_session_drawdowns = <<>>
    /\ afternoon_session_drawdowns = <<>>
    /\ range_data = <<>>
    /\ df_day = <<>>
    /\ loops = NoLoops
    /\ report = NoReport
    /\ LiveIdle

Ledger(st) == [st |-> st, all |-> all_trades, closed |-> closed_trades, bal |-> balance]

RowAt(t, c) == [time |-> t, high |-> c.high, low |-> c.low, close |-> c.close]

LastMinute == IF candle.time = None THEN None ELSE TimeOnly(candle.time)

(* run(): a weekend date is skipped before anything is reset *)
SkipWeekend ==
    /\ pc = "run"
    /\ date < MaxDays
    /\ date' = date + 1
    /\ range_data' = <<>>
    /\ UNCHANGED <<pc, candle, nrows, morning_state, afternoon_state, all_trades,
                   closed_trades, balance, morning_session_drawdowns,
                   afternoon_session_drawdowns, df_day, loops, report, liveVars>>

(* run(): "Reset daily state" for the next trading day *)
NextDate ==
    /\ pc = "run"
    /\ date < MaxDays
    /\ date' = date + 1
    /\ morning_state' = FreshState("MORNING")
    /\ afternoon_state' = FreshState("AFTERNOON")
    /\ candle' = NoCandle
    /\ pc' = "morning"
    /\ range_data' = <<>>
    /\ df_day' = <<>>
    /\ UNCHANGED <<nrows, all_trades, closed_trades, balance,
                   morning_session_drawdowns, afternoon_session_drawdowns, loops, report, liveVars>>

(* process_*_session up to "if state.range_high is None: return", the     *)
(* balance being bal                                                       *)
BeginSessionAt(st, rows, bal) ==
    LET range_result == calculate_range(rows)
        tracked == [st EXCEPT !.session_start_balance = bal,
                              !.session_peak_balance = bal,
                              !.session_max_drawdown = 0]
    IN  IF st.range_high = None /\ range_result # <<>>
        THEN [tracked EXCEPT !.range_high = range_result[1],
                             !.range_low = range_result[2]]
        ELSE tracked

BeginSession(st, rows) == BeginSessionAt(st, rows, balance)

(* the lists of at most n rows drawn from a set of rows *)
RowLists(rowset, n) == UNION {[1..k -> rowset] : k \in 0..n}

(* process_morning_session up to the candle loop, the rows of the range    *)
(* window being one of windows                                             *)
MorningBegin(windows) ==
    /\ pc = "morning"
    /\ \E rows \in windows :
          /\ range_data' = rows
          /\ morning_state' = BeginSession(morning_state, rows)
          /\ pc' = IF morning_state'.range_high = None THEN "afternoon" ELSE "morning_loop"
    /\ candle' = NoCandle
    /\ UNCHANGED <<date, nrows, afternoon_state, all_trades, closed_trades, balance,
                   morning_session_drawdowns, afternoon_session_drawdowns, df_day, loops, report, liveVars>>

BeginMorning == MorningBegin(RowLists(RangeRows, 3))

(* one iteration of the morning candle loop on the next row of the day:   *)
(* its minute is one of times, its prices one of candles; with keep, a row *)
(* from AFTERNOON_RANGE_START on is kept in df_day                         *)
MorningRow(times, candles, maxrows, keep) ==
    /\ pc = "morning_loop"
    /\ nrows < maxrows
    /\ \E t \in times : \E c \in candles :
          LET row == RowAt(Stamp(date, t), c)
              X == MorningIteration(Ledger(morning_state), row)
          IN  /\ candle' = row
              /\ morning_state' = X.st
              /\ all_trades' = X.all
              /\ closed_trades' = X.closed
              /\ balance' = X.bal
              /\ df_day' = IF keep /\ t >= AFTERNOON_RANGE_START
                           THEN Append(df_day, row) ELSE df_day
    /\ nrows' = nrows + 1
    /\ range_data' = <<>>
    /\ UNCHANGED <<pc, date, afternoon_state,
                   morning_session_drawdowns, afternoon_session_drawdowns, loops, report, liveVars>>

MorningCandle ==
    MorningRow(NextRowTimes(MorningRowTimes \cup AfternoonRowTimes, LastMinute),
               Candles, MaxRows, FALSE)

(* the morning loop is exhausted: store the session drawdown *)
MorningEnd ==
    /\ pc = "morning_loop"
    /\ morning_session_drawdowns' =
          IF morning_state.session_max_drawdown < 0
          THEN Append(morning_session_drawdowns, morning_state.session_max_drawdown)
          ELSE morning_session_drawdowns
    /\ pc' = "afternoon"
    /\ candle' = NoCandle
    /\ range_data' = <<>>
    /\ UNCHANGED <<date, nrows, morning_state, afternoon_state, all_trades, closed_trades,
                   balance, afternoon_session_drawdowns, df_day, loops, report, liveVars>>

(* process_afternoon_session up to the candle loop, the rows of the range  *)
(* window being one of windows                                             *)
AfternoonBegin(windows) ==
    /\ pc = "afternoon"
    /\ \E rows \in windows :
          /\ range_data' = rows
          /\ afternoon_state' = BeginSession(afternoon_state, rows)
          /\ pc' = IF afternoon_state'.range_high = None THEN "run" ELSE "afternoon_loop"
    /\ candle' = NoCandle
    /\ UNCHANGED <<date, nrows, morning_state, all_trades, closed_trades, balance,
                   morning_session_drawdowns, afternoon_session_drawdowns, df_day, loops, report, liveVars>>

(* The runs explored have at most one complete range window per day: the   *)
(* afternoon window holds 3 rows only on a day whose morning session was   *)
(* skipped.                                                                *)
BeginAfternoon ==
    AfternoonBegin(RowLists(RangeRows, IF morning_state.range_high = None THEN 3 ELSE 2))

(* one iteration of the afternoon candle loop, the exit-time break          *)
(* included, on the next row of the day, which is one of rows              *)
AfternoonRow(rows, maxrows) ==
    /\ pc = "afternoon_loop"
    /\ nrows < maxrows
    /\ \E row \in rows :
          LET X == AfternoonIteration(Ledger(afternoon_state), row)
          IN  /\ candle' = row
              /\ afternoon_state' = X.st
              /\ all_trades' = X.all
              /\ closed_trades' = X.closed
              /\ balance' = X.bal
              /\ pc' = IF PastExit(row.time) THEN "afternoon_end" ELSE "afternoon_loop"
    /\ nrows' = nrows + 1
    /\ range_data' = <<>>
    /\ UNCHANGED <<date, morning_state,
                   morning_session_drawdowns, afternoon_session_drawdowns, df_day, loops, report, liveVars>>

AfternoonCandle ==
    AfternoonRow({RowAt(Stamp(date, t), c) :
                     t \in NextRowTimes(AfternoonRowTimes, LastMinute), c \in Candles},
                 MaxRows)

(* after the afternoon loop: SESSION_END close at the last row, then the   *)
(* session drawdown is stored                                              *)
AfternoonEnd ==
    /\ pc \in {"afternoon_loop", "afternoon_end"}
    /\ LET X == IF afternoon_state.open_trades # <<>>
                THEN close_all_session_trades(Ledger(afternoon_state),
                                              candle.close, candle.time, "SESSION_END")
                ELSE Ledger(afternoon_state)
       IN  /\ afternoon_state' = X.st
           /\ all_trades' = X.all
           /\ closed_trades' = X.closed
           /\ balance' = X.bal
           /\ afternoon_session_drawdowns' =
                 IF X.st.session_max_drawdown < 0
                 THEN Append(afternoon_session_drawdowns, X.st.session_max_drawdown)
                 ELSE afternoon_session_drawdowns
    /\ pc' = "run"
    /\ range_data' = <<>>
    /\ UNCHANGED <<date, candle, nrows, morning_state, morning_session_drawdowns, df_day, loops, report, liveVars>>

Next ==
    \/ SkipWeekend
    \/ NextDate
    \/ BeginMorning
    \/ MorningCandle
    \/ MorningEnd
    \/ BeginAfternoon
    \/ AfternoonCandle
    \/ AfternoonEnd

Spec == Init /\ [][Next]_vars

----------------------------------------------------------------------------
(* The morning session of one day on the prices of the worked example:     *)
(* range 1.10500 / 1.10000 (in points 110500 / 110000) and its neighbours, *)
(* breakout closes at 1.10600 and 1.09900, pullbacks to 1.10300 and        *)
(* 1.10100.                                                                *)

ScenarioRows == 3   \* rows read by the candle loop

ScenarioRangeRows == [high : {110400, 110500}, low : {110000, 110100}]

ScenarioPrices == {109900, 110100, 110300, 110600}

ScenarioCandles == {c \in [high : ScenarioPrices, low : ScenarioPrices,
                           close : ScenarioPrices] :
                      c.low <= c.close /\ c.close <= c.high}

ScenarioInit ==
    /\ pc = "morning"
    /\ date = 1
    /\ candle = NoCandle
    /\ nrows = 0
    /\ morning_state = FreshState("MORNING")
    /\ afternoon_state = FreshState("AFTERNOON")
    /\ all_trades = <<>>
    /\ closed_trades = <<>>
    /\ balance = INITIAL_BALANCE
    /\ morning_session_drawdowns = <<>>
    /\ afternoon_session_drawdowns = <<>>
    /\ range_data = <<>>
    /\ df_day = <<>>
    /\ loops = NoLoops
    /\ report = NoReport
    /\ LiveIdle

ScenarioBegin == MorningBegin([1..3 -> ScenarioRangeRows])

ScenarioCandle ==
    MorningRow(NextRowTimes(MorningRowTimes, LastMinute), ScenarioCandles,
               ScenarioRows, FALSE)

ScenarioNext ==
    \/ ScenarioBegin
    \/ ScenarioCandle
    \/ MorningEnd

ScenarioSpec == ScenarioInit /\ [][ScenarioNext]_vars

----------------------------------------------------------------------------
(* The same session with close_trade also called on a trade that is        *)
(* already closed, which the candle loops never do: a direct call of the   *)
(* method, with any price and reason, at the time of the row read last.    *)

MaxCloses == 4   \* length of closed_trades up to which close_trade is called again

CloseAgain ==
    /\ pc = "morning_loop"
    /\ Len(closed_trades) < MaxCloses
    /\ \E k \in DOMAIN closed_trades : \E price \in ScenarioPrices :
       \E reason \in {"TP", "REVERSAL"} :
          LET X == close_trade(Ledger(morning_state), closed_trades[k], price,
                               candle.time, reason)
          IN  /\ all_trades' = X.all
              /\ closed_trades' = X.closed
              /\ balance' = X.bal
    /\ UNCHANGED <<pc, date, candle, nrows, morning_state, afternoon_state,
                   morning_session_drawdowns, afternoon_session_drawdowns,
                   range_data, df_day, loops, report, liveVars>>

CloseNext ==
    \/ ScenarioNext
    \/ CloseAgain

CloseSpec == ScenarioInit /\ [][CloseNext]_vars

----------------------------------------------------------------------------
(* One trading day whose two sessions read the same rows.  The morning     *)
(* loop reads every row of the day from MORNING_ENTRY_START on and keeps   *)
(* those from AFTERNOON_RANGE_START on in df_day; the afternoon session    *)
(* takes its range window and its entry rows from df_day.  The rows are    *)
(* flat (high = low = close); the day has the first rows of the morning    *)
(* window, the rows of the afternoon range window and the first rows of    *)
(* the afternoon entry window, and may end after any of them.              *)

MaxDayPrice == 4      \* row prices are PriceStep * 1 .. PriceStep * MaxDayPrice
DayMorningRows == 2   \* rows of the day from MORNING_ENTRY_START on
DayAfternoonRows == 3 \* rows of the day from AFTERNOON_ENTRY_START on

FlatRows(prices) == {[high |-> p, low |-> p, close |-> p] : p \in prices}

DayCandles == FlatRows({PriceStep * k : k \in 1..MaxDayPrice})

DayRangeRows == FlatRows({PriceStep * k : k \in 2..(MaxDayPrice - 1)})

DayTimes ==
    {MORNING_ENTRY_START + CandleMinutes * i : i \in 0..(DayMorningRows - 1)}
    \cup {t \in AFTERNOON_RANGE_START..(AFTERNOON_RANGE_END - 1) :
             (t - AFTERNOON_RANGE_START) % CandleMinutes = 0}
    \cup {AFTERNOON_ENTRY_START + CandleMinutes * i : i \in 0..(DayAfternoonRows - 1)}

(* the minute of the row that follows the row at minute *)
DayNextTimes(minute) ==
    {t \in DayTimes : t > minute /\ \A u \in DayTimes : u > minute => t <= u}

(* calculate_range's mask on the rows kept of the day *)
InRangeWindow(row) ==
    /\ TimeOnly(row.time) >= AFTERNOON_RANGE_START
    /\ TimeOnly(row.time) < AFTERNOON_RANGE_END

(* the row of entry_candles that follows the row read last *)
DayNextRows ==
    {df_day[k] : k \in {j \in DOMAIN df_day :
        /\ TimeOnly(df_day[j].time) >= AFTERNOON_ENTRY_START
        /\ df_day[j].time > candle.time
        /\ \A i \in DOMAIN df_day :
              TimeOnly(df_day[i].time) >= AFTERNOON_ENTRY_START
              /\ df_day[i].time > candle.time => j <= i}}

DayBeginMorning == MorningBegin([1..3 -> DayRangeRows])

DayMorningCandle ==
    MorningRow(DayNextTimes(LastMinute), DayCandles, Cardinality(DayTimes), TRUE)

DayBeginAfternoon == AfternoonBegin({SelectSeq(df_day, InRangeWindow)})

DayAfternoonCandle == AfternoonRow(DayNextRows, 2 * Cardinality(DayTimes))

(* the afternoon loop ends at the break or when the rows are exhausted *)
DayAfternoonEnd ==
    /\ pc = "afternoon_end" \/ DayNextRows = {}
    /\ AfternoonEnd

DayNext ==
    \/ DayBeginMorning
    \/ DayMorningCandle
    \/ MorningEnd
    \/ DayBeginAfternoon
    \/ DayAfternoonCandle
    \/ DayAfternoonEnd

DaySpec == ScenarioInit /\ [][DayNext]_vars

----------------------------------------------------------------------------
(* One trading day whose rows are loaded first (get_historical_data) and   *)
(* then read by the two sessions: df_day holds every row of the date, the  *)
(* rows of the two range windows included.  ReplaySpec runs the sessions   *)
(* as run() does, the morning session to its end and then the afternoon    *)
(* session.  InterleaveSpec takes the steps of the two process_*_session   *)
(* calls in any order.  The rows are flat, and the rows of one range       *)
(* window are equal.                                                       *)

ReplayTimes ==
    {t \in MORNING_RANGE_START..(MORNING_RANGE_END - 1) :
        (t - MORNING_RANGE_START) % CandleMinutes = 0}
    \cup DayTimes

RangeStart(s) == IF s = "MORNING" THEN MORNING_RANGE_START ELSE AFTERNOON_RANGE_START

RangeEnd(s) == IF s = "MORNING" THEN MORNING_RANGE_END ELSE AFTERNOON_RANGE_END

EntryStart(s) == IF s = "MORNING" THEN MORNING_ENTRY_START ELSE AFTERNOON_ENTRY_START

InRange(s, minute) == minute >= RangeStart(s) /\ minute < RangeEnd(s)

(* calculate_range's mask: the rows of the range window of session s *)
RangeWindow(s, rows) ==
    LET Masked(row) == InRange(s, TimeOnly(row.time))
    IN  SelectSeq(rows, Masked)

LastLoaded == IF df_day = <<>> THEN None ELSE TimeOnly(df_day[Len(df_day)].time)

(* the minute of the row that follows the row loaded last *)
LoadTimes == {t \in ReplayTimes : t > LastLoaded /\ \A u \in ReplayTimes : u > LastLoaded => t <= u}

(* the prices of the row at minute t *)
LoadCandles(t) ==
    IF \E s \in Sessions : InRange(s, t)
    THEN IF \E s \in Sessions : InRange(s, t) /\ InRange(s, LastLoaded)
         THEN {[high |-> df_day[Len(df_day)].high, low |-> df_day[Len(df_day)].low,
                close |-> df_day[Len(df_day)].close]}
         ELSE DayRangeRows
    ELSE DayCandles

ReplayInit ==
    /\ pc = "load"
    /\ date = 1
    /\ candle = NoCandle
    /\ nrows = 0
    /\ morning_state = FreshState("MORNING")
    /\ afternoon_state = FreshState("AFTERNOON")
    /\ all_trades = <<>>
    /\ closed_trades = <<>>
    /\ balance = INITIAL_BALANCE
    /\ morning_session_drawdowns = <<>>
    /\ afternoon_session_drawdowns = <<>>
    /\ range_data = <<>>
    /\ df_day = <<>>
    /\ loops = NoLoops
    /\ report = NoReport
    /\ LiveIdle

(* get_historical_data: the next row of the date *)
LoadRow ==
    /\ pc = "load"
    /\ \E t \in LoadTimes : \E c \in LoadCandles(t) :
          df_day' = Append(df_day, RowAt(Stamp(date, t), c))
    /\ UNCHANGED <<pc, date, candle, nrows, morning_state, afternoon_state, all_trades,
                   closed_trades, balance, morning_session_drawdowns,
                   afternoon_session_drawdowns, range_data, loops, report, liveVars>>

(* the data of the date ends; run() goes on to the sessions *)
LoadDone ==
    /\ pc = "load"
    /\ pc' = "sessions"
    /\ UNCHANGED <<date, candle, nrows, morning_state, afternoon_state, all_trades,
                   closed_trades, balance, morning_session_drawdowns,
                   afternoon_session_drawdowns, range_data, df_day, loops, report, liveVars>>

(* a loop that may pass over rows of entry_candles *)
NextAtSkipping(s) ==
    {k \in DOMAIN df_day :
        k > loops[s].at /\ TimeOnly(df_day[k].time) >= EntryStart(s)}

(* the index in df_day of the row of entry_candles that follows the row    *)
(* the loop of session s read last                                         *)
NextAt(s) ==
    {k \in DOMAIN df_day :
        /\ k > loops[s].at
        /\ TimeOnly(df_day[k].time) >= EntryStart(s)
        /\ \A j \in DOMAIN df_day :
              j > loops[s].at /\ TimeOnly(df_day[j].time) >= EntryStart(s) => k <= j}

Iteration(s, X, row) ==
    IF s = "MORNING" THEN MorningIteration(X, row) ELSE AfternoonIteration(X, row)

(* session s leaves state and ledger X *)
SetSession(s, X) ==
    /\ morning_state' = IF s = "MORNING" THEN X.st ELSE morning_state
    /\ afternoon_state' = IF s = "AFTERNOON" THEN X.st ELSE afternoon_state
    /\ all_trades' = X.all
    /\ closed_trades' = X.closed
    /\ balance' = X.bal

(* process_*_session up to the candle loop *)
SessionBegin(s) ==
    /\ pc = "sessions"
    /\ loops[s].pc = "begin"
    /\ LET rows == RangeWindow(s, df_day)
           st == BeginSession(StateOf(s), rows)
       IN  /\ range_data' = rows
           /\ SetSession(s, Ledger(st))
           /\ loops' = [loops EXCEPT ![s].pc = IF st.range_high = None THEN "done"
                                                ELSE "loop"]
    /\ candle' = NoCandle
    /\ UNCHANGED <<pc, date, nrows, morning_session_drawdowns,
                   afternoon_session_drawdowns, df_day, report, liveVars>>

(* one iteration of the candle loop of session s *)
SessionRow(s) ==
    /\ pc = "sessions"
    /\ loops[s].pc = "loop"
    /\ \E k \in NextAt(s) :
          LET row == df_day[k]
              X == Iteration(s, Ledger(StateOf(s)), row)
          IN  /\ candle' = row
              /\ SetSession(s, X)
              /\ loops' = [loops EXCEPT ![s].at = k,
                                        ![s].pc = IF s = "AFTERNOON" /\ PastExit(row.time)
                                                  THEN "end" ELSE "loop"]
    /\ nrows' = nrows + 1
    /\ range_data' = <<>>
    /\ UNCHANGED <<pc, date, morning_session_drawdowns, afternoon_session_drawdowns,
                   df_day, report, liveVars>>

(* after the candle loop of session s: the afternoon's SESSION_END close   *)
(* at the last row of entry_candles, then the session drawdown is stored   *)
SessionEnd(s) ==
    /\ pc = "sessions"
    /\ loops[s].pc = "end" \/ (loops[s].pc = "loop" /\ NextAt(s) = {})
    /\ LET last == df_day[Len(df_day)]
           X == IF s = "AFTERNOON" /\ StateOf(s).open_trades # <<>>
                THEN close_all_session_trades(Ledger(StateOf(s)), last.close, last.time,
                                              "SESSION_END")
                ELSE Ledger(StateOf(s))
       IN  /\ SetSession(s, X)
           /\ morning_session_drawdowns' =
                 IF s = "MORNING" /\ X.st.session_max_drawdown < 0
                 THEN Append(morning_session_drawdowns, X.st.session_max_drawdown)
                 ELSE morning_session_drawdowns
           /\ afternoon_session_drawdowns' =
                 IF s = "AFTERNOON" /\ X.st.session_max_drawdown < 0
                 THEN Append(afternoon_session_drawdowns, X.st.session_max_drawdown)
                 ELSE afternoon_session_drawdowns
    /\ loops' = [loops EXCEPT ![s].pc = "done"]
    /\ range_data' = <<>>
    /\ UNCHANGED <<pc, date, candle, nrows, df_day, report, liveVars>>

SessionStep(s) ==
    \/ SessionBegin(s)
    \/ SessionRow(s)
    \/ SessionEnd(s)

(* run(): process_morning_session returns before process_afternoon_session *)
(* is called                                                               *)
ReplayNext ==
    \/ LoadRow
    \/ LoadDone
    \/ SessionStep("MORNING")
    \/ loops["MORNING"].pc = "done" /\ SessionStep("AFTERNOON")

ReplaySpec == ReplayInit /\ [][ReplayNext]_vars

InterleaveNext ==
    \/ LoadRow
    \/ LoadDone
    \/ \E s \in Sessions : SessionStep(s)

InterleaveSpec == ReplayInit /\ [][InterleaveNext]_vars

(* The engine run on a given list of rows, as a function of the rows *)

RECURSIVE RunLoop(_, _, _, _)
RunLoop(s, X, rows, k) ==
    IF k > Len(rows) THEN X
    ELSE IF TimeOnly(rows[k].time) < EntryStart(s) THEN RunLoop(s, X, rows, k + 1)
    ELSE LET Y == Iteration(s, X, rows[k])
         IN  IF s = "AFTERNOON" /\ PastExit(rows[k].time) THEN Y
             ELSE RunLoop(s, Y, rows, k + 1)

(* process_*_session of session s on the ledger L *)
RunSession(s, L, rows) ==
    LET st == BeginSessionAt(FreshState(s), RangeWindow(s, rows), L.bal)
        X0 == [st |-> st, all |-> L.all, closed |-> L.closed, bal |-> L.bal]
        X == RunLoop(s, X0, rows, 1)
        last == rows[Len(rows)]
    IN  IF st.range_high = None THEN X0
        ELSE IF s = "AFTERNOON" /\ X.st.open_trades # <<>>
        THEN close_all_session_trades(X, last.close, last.time, "SESSION_END")
        ELSE X

(* run() on the rows of one date, from a new Backtester *)
RunDay(rows) ==
    RunSession("AFTERNOON",
               RunSession("MORNING",
                          [all |-> <<>>, closed |-> <<>>, bal |-> INITIAL_BALANCE], rows),
               rows)

----------------------------------------------------------------------------
(* The live poller (trading_bot.py).  Time is in minutes: now is           *)
(* day * DayMinutes + minute of the day, and day 0 is a Monday.  Prices    *)
(* are in tenths of a point, lot sizes in hundredths of a lot.  A row of   *)
(* rates is a bar: its time is the minute the bar opened.  The rows kept   *)
(* in rates are those the code can still read: the rows of the current     *)
(* date and the latest row.  Positions stay open at the broker until the   *)
(* poller closes them.                                                     *)

(* Configuration (trading_bot.py:19-42) *)
LIVE_LOT_SIZE == 10
LIVE_TP_UNITS == 58
LIVE_MORNING_RANGE_START == 720
LIVE_MORNING_RANGE_END == 735
LIVE_AFTERNOON_RANGE_START == 1110
LIVE_AFTERNOON_RANGE_END == 1125
LIVE_MORNING_ENTRY_START == 735
LIVE_MORNING_ENTRY_CUTOFF == 1109
LIVE_AFTERNOON_ENTRY_START == 1125
LIVE_AFTERNOON_EXIT_TIME == 1435
POLL_INTERVAL == 10
WEEKEND_SLEEP == 3600
RESET_WINDOW_END == 5
LAST_RANGE_TIME == 1439

(* Bounds of the live runs *)
LiveFirstDay == 4        \* the poller is started on this day (a Friday)
LiveLastDay == 7         \* the runs end on this day (the Monday after)
LiveLastMinute == 736    \* minute of LiveLastDay at which the runs end
MaxReversalCount == 3    \* no poll once a session's reversal_count is this

(* minutes of a trading day, and of a day of the weekend, at which the     *)
(* main loop may be at its top                                             *)
TradingMinutes == {2, 30, 736, 741, 1126, 1131, 1436}

WeekendMinutes == {2, 1410}

LiveMinutes(day) == IF day % 7 < 5 THEN TradingMinutes ELSE WeekendMinutes

(* minutes of a day at which a bar opens: the bars of the two range        *)
(* windows and the first two bars of each entry window                     *)
BarMinutes == {720, 725, 730, 735, 740, 1110, 1115, 1120, 1125, 1130}

(* the bars of a range window, all alike, and the closes of the other bars *)
LiveRangeBar == [high |-> 112, low |-> 108, close |-> 110]

LiveCloses == {104, 110, 116}

DateOf(t) == t \div DayMinutes

Weekday(t) == DateOf(t) % 7

(* is_trading_day *)
is_trading_day(t) == Weekday(t) < 5

LiveRangeStart(s) ==
    IF s = "MORNING" THEN LIVE_MORNING_RANGE_START ELSE LIVE_AFTERNOON_RANGE_START

LiveRangeEnd(s) ==
    IF s = "MORNING" THEN LIVE_MORNING_RANGE_END ELSE LIVE_AFTERNOON_RANGE_END

LiveEntryStart(s) ==
    IF s = "MORNING" THEN LIVE_MORNING_ENTRY_START ELSE LIVE_AFTERNOON_ENTRY_START

(* get_range *)
get_range(candles, start_time, end_time, current_date) ==
    LET Masked(row) == /\ row.time >= Stamp(current_date, start_time)
                       /\ row.time < Stamp(current_date, end_time)
        range_candles == SelectSeq(candles, Masked)
    IN  IF Len(range_candles) < 3 THEN NoRange
        ELSE [high |-> SeqMax([i \in 1..Len(range_candles) |-> range_candles[i].high]),
              low |-> SeqMin([i \in 1..Len(range_candles) |-> range_candles[i].low])]

(* check_breakout: the first entry candle that closed outside the range *)
check_breakout(candles, range_info, entry_start_time, current_date) ==
    LET Masked(row) == row.time >= Stamp(current_date, entry_start_time)
        Outside(row) == row.close > range_info.high \/ row.close < range_info.low
        breakouts == SelectSeq(SelectSeq(candles, Masked), Outside)
    IN  IF breakouts = <<>> THEN NoBreakout
        ELSE [direction |-> IF breakouts[1].close > range_info.high THEN "BUY" ELSE "SELL",
              price |-> breakouts[1].close,
              time |-> breakouts[1].time]

(* calculate_scale_levels of trading_bot.py *)
live_calculate_scale_levels(range_info, direction, is_reversal) ==
    calculate_scale_levels(range_info.high, range_info.low, direction, is_reversal)

(* calculate_tp of trading_bot.py *)
live_calculate_tp(breakout_info) ==
    IF breakout_info.direction = "BUY" THEN breakout_info.price + LIVE_TP_UNITS
    ELSE breakout_info.price - LIVE_TP_UNITS

(* check_reversal: the new direction, or "None" *)
check_reversal(candles, range_info, breakout_info) ==
    LET close_price == candles[Len(candles)].close
    IN  IF breakout_info.direction = "BUY"
        THEN IF close_price < range_info.low THEN "SELL" ELSE "None"
        ELSE IF close_price > range_info.high THEN "BUY" ELSE "None"

(* should_calculate_morning_range / should_calculate_afternoon_range *)
should_calculate_range(L, s, t) ==
    /\ TimeOnly(t) >= LiveRangeEnd(s)
    /\ TimeOnly(t) < LAST_RANGE_TIME
    /\ L.state[s].range = NoRange

(* can_enter_morning_trade / can_enter_afternoon_trade *)
can_enter_trade(L, s, t) ==
    IF s = "MORNING"
    THEN /\ TimeOnly(t) >= LIVE_MORNING_ENTRY_START
         /\ TimeOnly(t) <= LIVE_MORNING_ENTRY_CUTOFF
         /\ L.state[s].reversal_count < 2
    ELSE /\ TimeOnly(t) >= LIVE_AFTERNOON_ENTRY_START
         /\ TimeOnly(t) < LIVE_AFTERNOON_EXIT_TIME
         /\ L.state[s].reversal_count < 2

(* should_force_close_afternoon *)
should_force_close_afternoon(t) == TimeOnly(t) >= LIVE_AFTERNOON_EXIT_TIME

(* One iteration of the main loop works on L: L.state the TradingState,    *)
(* L.broker the broker's positions, L.calls the order calls made so far,   *)
(* L.accepts and L.closes the broker's answers of this iteration (to its   *)
(* open orders and to its close orders), L.ticket the value                *)
(* returned by the last open_position, L.info the value returned by the    *)
(* last handle_reversal.                                                   *)

(* open_position: the ticket of the order, None when the order failed *)
open_position(L, session, kind, direction, lot_size, tp_price) ==
    LET ok == L.accepts
        ticket == L.broker.next
    IN  [L EXCEPT !.calls = Append(@, [op |-> "open", session |-> session, kind |-> kind,
                                       direction |-> direction, lot_size |-> lot_size,
                                       tp_price |-> tp_price, ok |-> ok]),
                  !.broker = IF ok THEN [open |-> @.open \cup {ticket}, next |-> ticket + 1]
                             ELSE @,
                  !.ticket = IF ok THEN ticket ELSE None]

(* close_all_positions(session): close_position on every position of the   *)
(* broker whose ticket is in the session's position list                   *)
close_all_positions(L, session) ==
    LET mine == {t \in L.broker.open : InSeq(t, L.state[session].positions)}
    IN  IF mine = {} THEN L
        ELSE [L EXCEPT !.calls = Append(@, [op |-> "close", session |-> session,
                                            tickets |-> mine, ok |-> L.closes]),
                       !.broker.open = IF L.closes THEN @ \ mine ELSE @]

(* check_and_execute_scaling, were a level whose order failed kept for a   *)
(* later iteration                                                         *)
RECURSIVE ScaleLevelsRetrying(_, _, _, _, _)
ScaleLevelsRetrying(L, session, latest_candle, i, remaining) ==
    LET scale_levels == L.state[session].scale_levels
        breakout_info == L.state[session].breakout
        level == scale_levels[i]
        triggered == IF breakout_info.direction = "BUY" THEN latest_candle.low <= level
                     ELSE latest_candle.high >= level
        lot_size == IF L.state[session].reversal_count >= 1 THEN LIVE_LOT_SIZE * 2
                    ELSE LIVE_LOT_SIZE
        L1 == open_position(L, session, "SCALE", breakout_info.direction, lot_size,
                            live_calculate_tp(breakout_info))
    IN  IF i > Len(scale_levels) THEN [L EXCEPT !.state[session].scale_levels = remaining]
        ELSE IF triggered /\ L1.ticket # None
        THEN ScaleLevelsRetrying([L1 EXCEPT !.state[session].positions = Append(@, L1.ticket)],
                                 session, latest_candle, i + 1, remaining)
        ELSE IF triggered
        THEN ScaleLevelsRetrying(L1, session, latest_candle, i + 1, Append(remaining, level))
        ELSE ScaleLevelsRetrying(L, session, latest_candle, i + 1, Append(remaining, level))

(* the loop of check_and_execute_scaling from level i on; remaining is the *)
(* list remaining_levels                                                   *)
RECURSIVE ScaleLevelsFrom(_, _, _, _, _)
ScaleLevelsFrom(L, session, latest_candle, i, remaining) ==
    LET scale_levels == L.state[session].scale_levels
        breakout_info == L.state[session].breakout
        level == scale_levels[i]
        triggered == IF breakout_info.direction = "BUY" THEN latest_candle.low <= level
                     ELSE latest_candle.high >= level
        lot_size == IF L.state[session].reversal_count >= 1 THEN LIVE_LOT_SIZE * 2
                    ELSE LIVE_LOT_SIZE
        L1 == open_position(L, session, "SCALE", breakout_info.direction, lot_size,
                            live_calculate_tp(breakout_info))
        L2 == IF L1.ticket # None
              THEN [L1 EXCEPT !.state[session].positions = Append(@, L1.ticket)]
              ELSE L1
    IN  IF i > Len(scale_levels) THEN [L EXCEPT !.state[session].scale_levels = remaining]
        ELSE IF triggered THEN ScaleLevelsFrom(L2, session, latest_candle, i + 1, remaining)
        ELSE ScaleLevelsFrom(L, session, latest_candle, i + 1, Append(remaining, level))

(* check_and_execute_scaling, with the caller's assignment of its result   *)
(* to the session's scale levels                                           *)
check_and_execute_scaling(L, candles, session) ==
    IF L.state[session].scale_levels = <<>> THEN L
    ELSE ScaleLevelsFrom(L, session, candles[Len(candles)], 1, <<>>)

(* handle_reversal: L.info is the new breakout, NoBreakout for None *)
handle_reversal(L, new_direction, candles, session) ==
    LET L1 == [L EXCEPT !.state[session].reversal_count = @ + 1]
        L2 == close_all_positions(L1, session)
        L3 == [L2 EXCEPT !.state[session].positions = <<>>]
        latest_candle == candles[Len(candles)]
        breakout_info == [direction |-> new_direction, price |-> latest_candle.close,
                          time |-> latest_candle.time]
        L4 == open_position(L3, session, "REVERSAL", new_direction, LIVE_LOT_SIZE * 2,
                            live_calculate_tp(breakout_info))
    IN  IF L3.state[session].reversal_count >= 2 THEN [L3 EXCEPT !.info = NoBreakout]
        ELSE IF L4.ticket # None
        THEN [L4 EXCEPT !.state[session].positions = Append(@, L4.ticket),
                        !.info = breakout_info]
        ELSE [L4 EXCEPT !.info = NoBreakout]

(* "Calculate range if needed" *)
RangeStep(L, session, candles, t) ==
    IF L.state[session].range = NoRange /\ should_calculate_range(L, session, t)
    THEN [L EXCEPT !.state[session].range =
                       get_range(candles, LiveRangeStart(session), LiveRangeEnd(session),
                                 DateOf(t))]
    ELSE L

(* the breakout check, were the breakout recorded whatever the answer to   *)
(* the order                                                               *)
BreakoutStepMarking(L, session, candles, t) ==
    LET breakout == check_breakout(candles, L.state[session].range,
                                   LiveEntryStart(session), DateOf(t))
        L1 == open_position(L, session, "INITIAL", breakout.direction, LIVE_LOT_SIZE,
                            live_calculate_tp(breakout))
        L2 == [L1 EXCEPT !.state[session].breakout = breakout,
                         !.state[session].scale_levels =
                             live_calculate_scale_levels(L.state[session].range,
                                                         breakout.direction, FALSE)]
    IN  IF /\ L.state[session].range # NoRange
           /\ L.state[session].breakout = NoBreakout
           /\ can_enter_trade(L, session, t)
           /\ breakout # NoBreakout
        THEN IF L1.ticket # None
             THEN [L2 EXCEPT !.state[session].positions = Append(@, L1.ticket)]
             ELSE L2
        ELSE L

(* "Check for breakout if range exists but no breakout yet" *)
BreakoutStep(L, session, candles, t) ==
    LET breakout == check_breakout(candles, L.state[session].range,
                                   LiveEntryStart(session), DateOf(t))
        L1 == open_position(L, session, "INITIAL", breakout.direction, LIVE_LOT_SIZE,
                            live_calculate_tp(breakout))
    IN  IF /\ L.state[session].range # NoRange
           /\ L.state[session].breakout = NoBreakout
           /\ can_enter_trade(L, session, t)
           /\ breakout # NoBreakout
        THEN IF L1.ticket # None
             THEN [L1 EXCEPT !.state[session].breakout = breakout,
                             !.state[session].positions = Append(@, L1.ticket),
                             !.state[session].scale_levels =
                                 live_calculate_scale_levels(L.state[session].range,
                                                             breakout.direction, FALSE)]
             ELSE L1
        ELSE L

(* "Manage existing ... trades" *)
ManageStep(L, session, candles) ==
    LET range_info == L.state[session].range
        reversal_direction == check_reversal(candles, range_info, L.state[session].breakout)
        L1 == handle_reversal(L, reversal_direction, candles, session)
    IN  IF L.state[session].breakout = NoBreakout THEN L
        ELSE IF reversal_direction # "None"
        THEN IF L1.info # NoBreakout
             THEN [L1 EXCEPT !.state[session].breakout = L1.info,
                             !.state[session].scale_levels =
                                 live_calculate_scale_levels(range_info, L1.info.direction,
                                                             TRUE)]
             ELSE L1
        ELSE check_and_execute_scaling(L, candles, session)

(* process_morning_session *)
live_process_morning_session(L, candles, t) ==
    ManageStep(BreakoutStep(RangeStep(L, "MORNING", candles, t), "MORNING", candles, t),
               "MORNING", candles)

(* process_afternoon_session *)
live_process_afternoon_session(L, candles, t) ==
    IF should_force_close_afternoon(t)
    THEN IF L.state["AFTERNOON"].positions # <<>>
         THEN [close_all_positions(L, "AFTERNOON") EXCEPT !.state["AFTERNOON"].positions = <<>>]
         ELSE L
    ELSE ManageStep(BreakoutStep(RangeStep(L, "AFTERNOON", candles, t),
                                 "AFTERNOON", candles, t),
                    "AFTERNOON", candles)

(* check_new_day *)
check_new_day(S, t) ==
    IF /\ TimeOnly(t) < RESET_WINDOW_END
       /\ S["MORNING"].range # NoRange \/ S["AFTERNOON"].range # NoRange
    THEN [s \in Sessions |-> FreshTrading]
    ELSE S

(* seconds of sleep, in minutes of the clock *)
SleepMinutes(seconds) == seconds \div 60

LiveInit ==
    /\ pc = "live"
    /\ date = 0
    /\ candle = NoCandle
    /\ nrows = 0
    /\ morning_state = FreshState("MORNING")
    /\ afternoon_state = FreshState("AFTERNOON")
    /\ all_trades = <<>>
    /\ closed_trades = <<>>
    /\ balance = INITIAL_BALANCE
    /\ morning_session_drawdowns = <<>>
    /\ afternoon_session_drawdowns = <<>>
    /\ range_data = <<>>
    /\ df_day = <<>>
    /\ loops = NoLoops
    /\ report = NoReport
    /\ now = Stamp(LiveFirstDay, 2)
    /\ wake = Stamp(LiveFirstDay, 2)
    /\ rates = <<>>
    /\ state = [s \in Sessions |-> FreshTrading]
    /\ broker = [open |-> {}, next |-> 1]
    /\ calls = <<>>
    /\ fetched = "none"
    /\ processed = None

(* the instant of LiveMinutes that follows t *)
NextInstant(t) ==
    LET later == {m \in LiveMinutes(DateOf(t)) : m > TimeOnly(t)}
        tomorrow == LiveMinutes(DateOf(t) + 1)
    IN  IF later = {} THEN Stamp(DateOf(t) + 1, CHOOSE m \in tomorrow :
                                                    \A u \in tomorrow : m <= u)
        ELSE Stamp(DateOf(t), CHOOSE m \in later : \A u \in later : m <= u)

(* the bars that open after t1, up to t2, on a trading day *)
RECURSIVE BarsBetween(_, _)
BarsBetween(t1, t2) ==
    LET opens == {Stamp(DateOf(t2), m) : m \in BarMinutes}
        due == {b \in opens : b > t1 /\ b <= t2}
        first == CHOOSE b \in due : \A u \in due : b <= u
    IN  IF due = {} \/ ~is_trading_day(t2) THEN <<>>
        ELSE <<first>> \o BarsBetween(first, t2)

InLiveWindow(t) ==
    \E s \in Sessions : TimeOnly(t) >= LiveRangeStart(s) /\ TimeOnly(t) < LiveRangeEnd(s)

(* the rows a list of bar times may bring: a range window has its three    *)
(* bars or none, another bar closes at one of LiveCloses                   *)
Feeds(times) ==
    LET win == SelectSeq(times, InLiveWindow)
        rest == SelectSeq(times, LAMBDA t : ~InLiveWindow(t))
        winrows == [i \in 1..Len(win) |-> RowAt(win[i], LiveRangeBar)]
    IN  {w \o [i \in 1..Len(rest) |-> RowAt(rest[i], [high |-> c[i], low |-> c[i],
                                                      close |-> c[i]])] :
            w \in {<<>>, winrows}, c \in [1..Len(rest) -> LiveCloses]}

(* the rows of rates still read at time t: those of the date of t, and the *)
(* latest row                                                              *)
KeepRates(rs, t) ==
    LET Today(row) == DateOf(row.time) = DateOf(t)
        today == SelectSeq(rs, Today)
    IN  IF today = <<>> /\ rs # <<>> THEN <<rs[Len(rs)]>> ELSE today

(* time passes up to the next instant, and the market adds its bars *)
Tick ==
    /\ pc = "live"
    /\ NextInstant(now) <= Stamp(LiveLastDay, LiveLastMinute)
    /\ now' = NextInstant(now)
    /\ \E rows \in Feeds(BarsBetween(now, now')) :
          rates' = KeepRates(rates \o rows, now')
    /\ wake' = IF wake < now' THEN now' ELSE wake
    /\ calls' = <<>>
    /\ fetched' = "none"
    /\ UNCHANGED <<state, broker, processed, backtestVars, report>>

(* an iteration of the main loop, were the sessions processed on the rows  *)
(* of the last successful fetch when get_candles returns None              *)
PollUnfetched ==
    /\ pc = "live"
    /\ now >= wake
    /\ \A s \in Sessions : state[s].reversal_count < MaxReversalCount
    /\ IF ~is_trading_day(now)
       THEN /\ wake' = now + SleepMinutes(WEEKEND_SLEEP)
            /\ calls' = <<>>
            /\ fetched' = "none"
            /\ UNCHANGED <<state, broker, processed>>
       ELSE \E got \in (IF rates = <<>> THEN {FALSE} ELSE BOOLEAN) :
            \E accepts \in BOOLEAN : \E closes \in BOOLEAN :
               LET L0 == [state |-> check_new_day(state, now), broker |-> broker,
                          calls |-> <<>>, accepts |-> accepts, closes |-> closes,
                          ticket |-> None, info |-> NoBreakout]
                   L2 == live_process_afternoon_session(
                             live_process_morning_session(L0, rates, now), rates, now)
                   L == IF rates # <<>> THEN L2 ELSE L0
               IN  /\ state' = L.state
                   /\ broker' = L.broker
                   /\ calls' = L.calls
                   /\ fetched' = IF got THEN "candles" ELSE "None"
                   /\ processed' = IF got THEN DateOf(now) ELSE processed
                   /\ wake' = now + SleepMinutes(POLL_INTERVAL)
    /\ UNCHANGED <<now, rates, backtestVars, report>>

(* one iteration of the main loop *)
Poll ==
    /\ pc = "live"
    /\ now >= wake
    /\ \A s \in Sessions : state[s].reversal_count < MaxReversalCount
    /\ IF ~is_trading_day(now)
       THEN /\ wake' = now + SleepMinutes(WEEKEND_SLEEP)
            /\ calls' = <<>>
            /\ fetched' = "none"
            /\ UNCHANGED <<state, broker, processed>>
       ELSE \E got \in (IF rates = <<>> THEN {FALSE} ELSE BOOLEAN) :
            \E accepts \in BOOLEAN : \E closes \in BOOLEAN :
               LET L0 == [state |-> check_new_day(state, now), broker |-> broker,
                          calls |-> <<>>, accepts |-> accepts, closes |-> closes,
                          ticket |-> None, info |-> NoBreakout]
                   L2 == live_process_afternoon_session(
                             live_process_morning_session(L0, rates, now), rates, now)
                   L == IF got THEN L2 ELSE L0
               IN  /\ state' = L.state
                   /\ broker' = L.broker
                   /\ calls' = L.calls
                   /\ fetched' = IF got THEN "candles" ELSE "None"
                   /\ processed' = IF got THEN DateOf(now) ELSE processed
                   /\ wake' = now + SleepMinutes(POLL_INTERVAL)
    /\ UNCHANGED <<now, rates, backtestVars, report>>

LiveNext ==
    \/ Tick
    \/ Poll

LiveSpec == LiveInit /\ [][LiveNext]_vars

----------------------------------------------------------------------------
(* The fetch of the market data.  run() of backtest_nas.py starts with     *)
(* get_historical_data, which returns None when copy_rates_range returns   *)
(* None or no row; run() then returns {}.                                  *)

(* the {} that run() returns *)
EmptyResult == [empty |-> TRUE]

FetchFails ==
    /\ pc = "run"
    /\ date = 0
    /\ pc' = "aborted"
    /\ report' = EmptyResult
    /\ UNCHANGED <<date, candle, nrows, morning_state, afternoon_state, all_trades,
                   closed_trades, balance, morning_session_drawdowns,
                   afternoon_session_drawdowns, range_data, df_day, loops, liveVars>>

(* either program, started: a Backtester about to run, or the poller *)
FetchInit == Init \/ LiveInit

FetchNext ==
    \/ FetchFails
    \/ Next
    \/ LiveNext

FetchSpec == FetchInit /\ [][FetchNext]_vars

----------------------------------------------------------------------------
(* backtest.py, the backtest that opens a trade on the initial breakout    *)
(* and a trade on a reversal.  Its Trade, open_trade, close_trade,         *)
(* close_all_session_trades, calculate_range, calculate_tp,                *)
(* calculate_scale_levels and check_tp_hit are those of backtest_nas.py,   *)
(* line for line, and so are its LOT_SIZE, TP_UNITS and INITIAL_BALANCE;   *)
(* its SessionState has no initial_breakout_done, no breakout_candle_time  *)
(* and no drawdown fields (they keep their initial values here).           *)

(* Configuration (backtest.py:25-35) *)
BT_MORNING_RANGE_START == 600
BT_MORNING_RANGE_END == 615
BT_AFTERNOON_RANGE_START == 990
BT_AFTERNOON_RANGE_END == 1005
BT_MORNING_ENTRY_START == 615
BT_MORNING_ENTRY_CUTOFF == 989
BT_AFTERNOON_ENTRY_START == 1005
BT_AFTERNOON_EXIT_TIME == 1435

VariantMorningRows == 4      \* rows of the day in the morning entry window
VariantAfternoonRows == 3    \* rows of the day from AFTERNOON_ENTRY_START on

(* open_trade, and the append of the trade to state.open_trades *)
bt_open(X, direction, entry_price, row, trade_type, session, lot_size) ==
    LET Y == open_trade(X, direction, entry_price, row.time, X.st.tp_price,
                        trade_type, session, lot_size)
    IN  [Y EXCEPT !.st.open_trades = Append(@, Len(Y.all))]

(* "Check for initial breakout" *)
bt_initial_breakout(X, row, session) ==
    LET Armed_(direction) ==
            [X EXCEPT !.st.breakout_direction = direction,
                      !.st.breakout_price = row.close,
                      !.st.tp_price = calculate_tp(row.close, direction),
                      !.st.scale_levels = calculate_scale_levels(X.st.range_high,
                                                                 X.st.range_low,
                                                                 direction, FALSE)]
    IN  IF row.close > X.st.range_high
        THEN bt_open(Armed_("BUY"), "BUY", row.close, row, "INITIAL", session, LOT_SIZE)
        ELSE IF row.close < X.st.range_low
        THEN bt_open(Armed_("SELL"), "SELL", row.close, row, "INITIAL", session,
                     LOT_SIZE)
        ELSE X

(* "Check for TP hit": the trades that hit are closed first, then the rest *)
bt_take_profit(X, row) ==
    LET Hit(id) == check_tp_hit(X.all[id], row)
        hits == SelectSeq(X.st.open_trades, Hit)
        rest == SelectSeq(X.st.open_trades, LAMBDA id : ~Hit(id))
        Y == CloseEach(X, hits, X.st.tp_price, row.time, "TP")
    IN  close_all_session_trades([Y EXCEPT !.st.open_trades = rest],
                                 X.st.tp_price, row.time, "TP")

(* "Check for reversal" *)
bt_reversal(X, row, session) ==
    LET new_direction == IF X.st.breakout_direction = "BUY" THEN "SELL" ELSE "BUY"
        Y == close_all_session_trades(X, row.close, row.time, "REVERSAL")
        Z == [Y EXCEPT !.st.reversal_count = @ + 1]
        again == [Z EXCEPT !.st.breakout_direction = new_direction,
                           !.st.breakout_price = row.close,
                           !.st.tp_price = calculate_tp(row.close, new_direction),
                           !.st.scale_levels = calculate_scale_levels(X.st.range_high,
                                                                      X.st.range_low,
                                                                      new_direction, TRUE),
                           !.st.executed_scales = <<>>]
    IN  IF Z.st.reversal_count < 2
        THEN bt_open(again, new_direction, row.close, row, "REVERSAL", session,
                     LOT_SIZE * 2)
        ELSE [Z EXCEPT !.st.breakout_direction = "None"]

(* "Check for scaling opportunities", from level i on *)
RECURSIVE bt_scale(_, _, _, _)
bt_scale(X, i, row, session) ==
    LET level == X.st.scale_levels[i]
        triggered == IF X.st.breakout_direction = "BUY" THEN row.low <= level
                     ELSE row.high >= level
        lot_size == IF X.st.reversal_count >= 1 THEN LOT_SIZE * 2 ELSE LOT_SIZE
        Y == bt_open(X, X.st.breakout_direction, level, row, "SCALE", session, lot_size)
    IN  IF i > Len(X.st.scale_levels) THEN X
        ELSE IF InSeq(level, X.st.executed_scales) \/ ~triggered
        THEN bt_scale(X, i + 1, row, session)
        ELSE bt_scale([Y EXCEPT !.st.executed_scales = Append(@, level)],
                      i + 1, row, session)

(* "Manage existing trades" *)
bt_manage(X, row, session) ==
    LET tp_hit == \E i \in 1..Len(X.st.open_trades) :
                      check_tp_hit(X.all[X.st.open_trades[i]], row)
        reversal == \/ X.st.breakout_direction = "BUY" /\ row.close < X.st.range_low
                    \/ X.st.breakout_direction = "SELL" /\ row.close > X.st.range_high
    IN  IF tp_hit THEN bt_take_profit(X, row)
        ELSE IF reversal THEN bt_reversal(X, row, session)
        ELSE bt_scale(X, 1, row, session)

(* the body of the candle loop of process_morning_session (lines 306-418)  *)
(* and, after its force close, of process_afternoon_session (lines         *)
(* 444-545)                                                                *)
bt_iteration(X, row, session) ==
    LET can_enter_new == \/ session = "AFTERNOON"
                         \/ TimeOnly(row.time) <= BT_MORNING_ENTRY_CUTOFF
        Y == IF X.st.breakout_direction = "None" /\ can_enter_new
             THEN bt_initial_breakout(X, row, session)
             ELSE X
    IN  IF Y.st.breakout_direction # "None" /\ Y.st.open_trades # <<>>
        THEN bt_manage(Y, row, session)
        ELSE Y

(* The rows of a day: the three bars of each range window, alike, and      *)
(* flat bars in the entry windows, the last of them at the exit time; a    *)
(* day may end at any row.                                                 *)
VariantRangeBar == [high |-> 4 * TP_UNITS, low |-> 2 * TP_UNITS, close |-> 3 * TP_UNITS]

VariantCandles == FlatRows({TP_UNITS, 3 * TP_UNITS, 5 * TP_UNITS, 6 * TP_UNITS})

VariantTimes ==
    {BT_MORNING_ENTRY_START + CandleMinutes * i : i \in 0..(VariantMorningRows - 1)}
    \cup {t \in BT_AFTERNOON_RANGE_START..(BT_AFTERNOON_RANGE_END - 1) :
             (t - BT_AFTERNOON_RANGE_START) % CandleMinutes = 0}
    \cup {BT_AFTERNOON_ENTRY_START + CandleMinutes * i : i \in 0..(VariantAfternoonRows - 1)}
    \cup {BT_AFTERNOON_EXIT_TIME}

(* the minute of the row that follows the row the morning loop read last *)
VariantNextTimes ==
    {t \in VariantTimes :
        /\ candle # NoCandle => t > TimeOnly(candle.time)
        /\ \A u \in VariantTimes :
              (candle # NoCandle => u > TimeOnly(candle.time)) => t <= u}

VariantCandlesAt(t) ==
    IF t >= BT_AFTERNOON_RANGE_START /\ t < BT_AFTERNOON_RANGE_END THEN {VariantRangeBar}
    ELSE IF t >= BT_AFTERNOON_EXIT_TIME THEN FlatRows({3 * TP_UNITS})
    ELSE VariantCandles

InVariantWindow(row) ==
    /\ TimeOnly(row.time) >= BT_AFTERNOON_RANGE_START
    /\ TimeOnly(row.time) < BT_AFTERNOON_RANGE_END

(* the row of the afternoon's entry_candles that follows the row read last *)
VariantNextRows ==
    {df_day[k] : k \in {j \in DOMAIN df_day :
        /\ TimeOnly(df_day[j].time) >= BT_AFTERNOON_ENTRY_START
        /\ df_day[j].time > candle.time
        /\ \A i \in DOMAIN df_day :
              TimeOnly(df_day[i].time) >= BT_AFTERNOON_ENTRY_START
              /\ df_day[i].time > candle.time => j <= i}}

(* calculate_range into a session state *)
bt_range(st, rows) ==
    LET range_result == calculate_range(rows)
    IN  IF st.range_high = None /\ range_result # <<>>
        THEN [st EXCEPT !.range_high = range_result[1], !.range_low = range_result[2]]
        ELSE st

(* run() has reset the sessions of a trading date *)
VariantInit ==
    /\ pc = "bt_morning"
    /\ date = 1
    /\ candle = NoCandle
    /\ nrows = 0
    /\ morning_state = FreshState("MORNING")
    /\ afternoon_state = FreshState("AFTERNOON")
    /\ all_trades = <<>>
    /\ closed_trades = <<>>
    /\ balance = INITIAL_BALANCE
    /\ morning_session_drawdowns = <<>>
    /\ afternoon_session_drawdowns = <<>>
    /\ range_data = <<>>
    /\ df_day = <<>>
    /\ loops = NoLoops
    /\ report = NoReport
    /\ LiveIdle

(* process_morning_session up to its loop *)
VariantBeginMorning ==
    /\ pc = "bt_morning"
    /\ \E rows \in {<<>>, [i \in 1..3 |-> VariantRangeBar]} :
          /\ range_data' = rows
          /\ morning_state' = bt_range(morning_state, rows)
          /\ pc' = IF morning_state'.range_high = None THEN "bt_afternoon"
                   ELSE "bt_morning_loop"
    /\ UNCHANGED <<date, candle, nrows, afternoon_state, all_trades, closed_trades, balance,
                   morning_session_drawdowns, afternoon_session_drawdowns, df_day, loops,
                   report, liveVars>>

VariantMorningCandle ==
    /\ pc = "bt_morning_loop"
    /\ \E t \in VariantNextTimes : \E c \in VariantCandlesAt(t) :
          LET row == RowAt(Stamp(date, t), c)
              X == bt_iteration(Ledger(morning_state), row, "MORNING")
          IN  /\ candle' = row
              /\ morning_state' = X.st
              /\ all_trades' = X.all
              /\ closed_trades' = X.closed
              /\ balance' = X.bal
              /\ df_day' = IF t >= BT_AFTERNOON_RANGE_START THEN Append(df_day, row)
                           ELSE df_day
    /\ nrows' = nrows + 1
    /\ range_data' = <<>>
    /\ UNCHANGED <<pc, date, afternoon_state, morning_session_drawdowns,
                   afternoon_session_drawdowns, loops, report, liveVars>>

(* the rows of the day are exhausted *)
VariantMorningEnd ==
    /\ pc = "bt_morning_loop"
    /\ pc' = "bt_afternoon"
    /\ candle' = NoCandle
    /\ range_data' = <<>>
    /\ UNCHANGED <<date, nrows, morning_state, afternoon_state, all_trades, closed_trades,
                   balance, morning_session_drawdowns, afternoon_session_drawdowns, df_day,
                   loops, report, liveVars>>

(* process_afternoon_session up to its loop *)
VariantBeginAfternoon ==
    /\ pc = "bt_afternoon"
    /\ range_data' = SelectSeq(df_day, InVariantWindow)
    /\ afternoon_state' = bt_range(afternoon_state, range_data')
    /\ pc' = IF afternoon_state'.range_high = None THEN "bt_done" ELSE "bt_afternoon_loop"
    /\ candle' = NoCandle
    /\ UNCHANGED <<date, nrows, morning_state, all_trades, closed_trades, balance,
                   morning_session_drawdowns, afternoon_session_drawdowns, df_day, loops,
                   report, liveVars>>

VariantAfternoonCandle ==
    /\ pc = "bt_afternoon_loop"
    /\ \E row \in VariantNextRows :
          LET exit == TimeOnly(row.time) >= BT_AFTERNOON_EXIT_TIME
              X == IF exit
                   THEN IF afternoon_state.open_trades # <<>>
                        THEN close_all_session_trades(Ledger(afternoon_state), row.close,
                                                      row.time, "TIME_EXIT")
                        ELSE Ledger(afternoon_state)
                   ELSE bt_iteration(Ledger(afternoon_state), row, "AFTERNOON")
          IN  /\ candle' = row
              /\ afternoon_state' = X.st
              /\ all_trades' = X.all
              /\ closed_trades' = X.closed
              /\ balance' = X.bal
              /\ pc' = IF exit THEN "bt_done" ELSE "bt_afternoon_loop"
    /\ nrows' = nrows + 1
    /\ range_data' = <<>>
    /\ UNCHANGED <<date, morning_state, morning_session_drawdowns,
                   afternoon_session_drawdowns, df_day, loops, report, liveVars>>

(* the afternoon's entry_candles are exhausted *)
VariantAfternoonEnd ==
    /\ pc = "bt_afternoon_loop"
    /\ VariantNextRows = {}
    /\ pc' = "bt_done"
    /\ range_data' = <<>>
    /\ UNCHANGED <<date, candle, nrows, morning_state, afternoon_state, all_trades,
                   closed_trades, balance, morning_session_drawdowns,
                   afternoon_session_drawdowns, df_day, loops, report, liveVars>>

VariantNext ==
    \/ VariantBeginMorning
    \/ VariantMorningCandle
    \/ VariantMorningEnd
    \/ VariantBeginAfternoon
    \/ VariantAfternoonCandle
    \/ VariantAfternoonEnd

VariantSpec == VariantInit /\ [][VariantNext]_vars

----------------------------------------------------------------------------
(* generate_statistics of backtest_nas.py, on the drawdowns the sessions   *)
(* recorded.  A quotient of the code is kept as the pair of its numerator  *)
(* and denominator, in lowest terms, so that no rounding is read into it.  *)

MaxSessions == 2         \* drawdowns a session list holds at most
MaxDrawdown == 3         \* the drawdowns are INITIAL_BALANCE / 1 .. MaxDrawdown

RECURSIVE GCD(_, _)
GCD(a, b) == IF b = 0 THEN a ELSE GCD(b, a % b)

(* n / d, for n >= 0 and d > 0 *)
Quotient(n, d) == [num |-> n \div GCD(n, d), den |-> d \div GCD(n, d)]

(* the summary with a recommended capital of three worst drawdowns, were   *)
(* the margin two                                                          *)
SummaryOfDoubled(morning_dds, afternoon_dds, closed, bal) ==
    LET morning_max_dd == IF morning_dds # <<>> THEN SeqMin(morning_dds) ELSE 0
        afternoon_max_dd == IF afternoon_dds # <<>> THEN SeqMin(afternoon_dds) ELSE 0
        overall_session_max_dd == IF morning_max_dd < afternoon_max_dd
                                  THEN morning_max_dd ELSE afternoon_max_dd
        recommended_balance == IF overall_session_max_dd < 0
                               THEN (0 - overall_session_max_dd) * 2
                               ELSE INITIAL_BALANCE
        safe_lot_multiplier == IF recommended_balance > 0
                               THEN Quotient(INITIAL_BALANCE, recommended_balance)
                               ELSE Quotient(1, 1)
    IN  [initial_balance |-> INITIAL_BALANCE,
         final_balance |-> bal,
         total_trades |-> Len(closed),
         morning_max_session_dd |-> morning_max_dd,
         afternoon_max_session_dd |-> afternoon_max_dd,
         worst_session_dd |-> overall_session_max_dd,
         recommended_starting_balance |-> recommended_balance,
         safe_lot_size |-> Quotient(LOT_SIZE * safe_lot_multiplier.num,
                                    safe_lot_multiplier.den)]

(* the 'summary' of generate_statistics: its balance, trade count and      *)
(* session drawdown entries (lines 838-848, 851-881)                       *)
SummaryOf(morning_dds, afternoon_dds, closed, bal) ==
    LET morning_max_dd == IF morning_dds # <<>> THEN SeqMin(morning_dds) ELSE 0
        afternoon_max_dd == IF afternoon_dds # <<>> THEN SeqMin(afternoon_dds) ELSE 0
        overall_session_max_dd == IF morning_max_dd < afternoon_max_dd
                                  THEN morning_max_dd ELSE afternoon_max_dd
        recommended_balance == IF overall_session_max_dd < 0
                               THEN (IF overall_session_max_dd < 0
                                     THEN 0 - overall_session_max_dd
                                     ELSE overall_session_max_dd) * 3
                               ELSE INITIAL_BALANCE
        safe_lot_multiplier == IF recommended_balance > 0
                               THEN Quotient(INITIAL_BALANCE, recommended_balance)
                               ELSE Quotient(1, 1)
    IN  [initial_balance |-> INITIAL_BALANCE,
         final_balance |-> bal,
         total_trades |-> Len(closed),
         morning_max_session_dd |-> morning_max_dd,
         afternoon_max_session_dd |-> afternoon_max_dd,
         worst_session_dd |-> overall_session_max_dd,
         recommended_starting_balance |-> recommended_balance,
         safe_lot_size |-> Quotient(LOT_SIZE * safe_lot_multiplier.num,
                                    safe_lot_multiplier.den)]

(* generate_statistics *)
generate_statistics(morning_dds, afternoon_dds, closed, bal) ==
    IF closed = <<>> THEN [error |-> "No trades executed"]
    ELSE [summary |-> SummaryOf(morning_dds, afternoon_dds, closed, bal)]

(* the drawdowns a session may have recorded: each is negative (a session  *)
(* appends its session_max_drawdown only when it is below 0)               *)
Drawdowns == {0 - (INITIAL_BALANCE \div k) : k \in 1..MaxDrawdown}

DrawdownLists == UNION {[1..n -> Drawdowns] : n \in 0..MaxSessions}

(* the ledgers of a run: no trade, or one morning trade closed at its      *)
(* take profit                                                             *)
NoLedger == [st |-> FreshState("MORNING"), all |-> <<>>, closed |-> <<>>,
             bal |-> INITIAL_BALANCE]

StatsLedgers ==
    {NoLedger,
     close_trade(open_trade(NoLedger, "BUY", TP_UNITS, Stamp(1, MORNING_ENTRY_START),
                            TP_UNITS + TP_UNITS, "SCALE", "MORNING", LOT_SIZE),
                 1, TP_UNITS + TP_UNITS, Stamp(1, MORNING_ENTRY_START) + CandleMinutes,
                 "TP")}

(* run() has gone through its dates and is about to return                 *)
(* generate_statistics()                                                   *)
StatsInit ==
    /\ pc = "statistics"
    /\ date = 1
    /\ candle = NoCandle
    /\ nrows = 0
    /\ morning_state = FreshState("MORNING")
    /\ afternoon_state = FreshState("AFTERNOON")
    /\ \E X \in StatsLedgers :
          /\ all_trades = X.all
          /\ closed_trades = X.closed
          /\ balance = X.bal
    /\ morning_session_drawdowns \in DrawdownLists
    /\ afternoon_session_drawdowns \in DrawdownLists
    /\ range_data = <<>>
    /\ df_day = <<>>
    /\ loops = NoLoops
    /\ report = NoReport
    /\ LiveIdle

GenerateStatistics ==
    /\ pc = "statistics"
    /\ pc' = "returned"
    /\ report' = generate_statistics(morning_session_drawdowns,
                                     afternoon_session_drawdowns, closed_trades, balance)
    /\ UNCHANGED <<date, candle, nrows, morning_state, afternoon_state, all_trades,
                   closed_trades, balance, morning_session_drawdowns,
                   afternoon_session_drawdowns, range_data, df_day, loops, liveVars>>

StatsNext == GenerateStatistics

StatsSpec == StatsInit /\ [][StatsNext]_vars

----------------------------------------------------------------------------
(* Vocabulary of the properties *)

LoopOf(s) == IF s = "MORNING" THEN "morning_loop" ELSE "afternoon_loop"

(* trades of session s, over the whole run and on the current date *)
TradesOf(s) == {i \in DOMAIN all_trades : all_trades[i].session = s}

TodaysTrades(s) == {i \in TradesOf(s) : all_trades[i].entry_time \div DayMinutes = date}

IsClosed(tr) == tr.exit_reason # "None"

(* the step is one iteration of the candle loop of session s; candle' is   *)
(* the row it processes                                                    *)
CandleStep(s) == pc = LoopOf(s) /\ nrows' = nrows + 1

IdsOf(seq) == {seq[k] : k \in DOMAIN seq}

IsPrefix(a, b) == Len(a) <= Len(b) /\ \A k \in DOMAIN a : a[k] = b[k]

Opposite(direction) == IF direction = "BUY" THEN "SELL" ELSE "BUY"

(* the close of row c is beyond the range boundary opposite to direction *)
ClosesBeyond(st, c) ==
    \/ st.breakout_direction = "BUY" /\ c.close < st.range_low
    \/ st.breakout_direction = "SELL" /\ c.close > st.range_high

(* row c reaches the price of a pullback entry of a trade in direction d *)
Touches(d, price, c) == IF d = "BUY" THEN c.low <= price ELSE c.high >= price

(* row c reaches the take-profit price of trade tr *)
ReachesTP(tr, c) ==
    \/ tr.direction = "BUY" /\ c.high >= tr.tp_price
    \/ tr.direction = "SELL" /\ c.low <= tr.tp_price

InWindow(s, t) == IF s = "MORNING" THEN TimeOnly(t) <= MORNING_ENTRY_CUTOFF
                  ELSE TimeOnly(t) < AFTERNOON_EXIT_TIME

----------------------------------------------------------------------------
(* C1: in every session of every trading day reversal_count never exceeds  *)
(* 2, and once it has reached 2 the session opens no trade.                *)
C1_ReversalCountAtMostTwo ==
    /\ [](\A s \in Sessions : StateOf(s).reversal_count <= 2)
    /\ [][\A s \in Sessions :
            StateOf(s).reversal_count >= 2
               => Cardinality(TradesOf(s))' = Cardinality(TradesOf(s))]_vars

(* a session at reversal_count 2 reads a further row that touches the      *)
(* entry level of the trade its second reversal closed                     *)
C1_Witness ==
    \E s \in Sessions : \E i \in TodaysTrades(s) :
        /\ pc = LoopOf(s)
        /\ StateOf(s).reversal_count = 2
        /\ all_trades[i].exit_reason = "REVERSAL"
        /\ \A j \in TodaysTrades(s) : /\ all_trades[j].entry_time <= all_trades[i].entry_time
                                      /\ IsClosed(all_trades[j])
                                      /\ all_trades[j].exit_time < candle.time
        /\ InWindow(s, candle.time)
        /\ Touches(all_trades[i].direction, all_trades[i].entry_price, candle)

----------------------------------------------------------------------------
RECURSIVE SumProfit(_, _)
SumProfit(all, ids) ==
    IF ids = <<>> THEN 0 ELSE all[Head(ids)].profit + SumProfit(all, Tail(ids))

(* C2: balance is INITIAL_BALANCE plus the profit of the trades in         *)
(* closed_trades, and no trade is in closed_trades twice (its profit was   *)
(* added once).                                                            *)
C2_BalanceIsSumOfProfits ==
    /\ balance = INITIAL_BALANCE + SumProfit(all_trades, closed_trades)
    /\ \A k, l \in DOMAIN closed_trades : closed_trades[k] = closed_trades[l] => k = l
    /\ \A i \in DOMAIN all_trades : IsClosed(all_trades[i]) => i \in IdsOf(closed_trades)

(* several trades were closed, with profits of both signs *)
C2_Witness ==
    /\ Len(closed_trades) >= 3
    /\ \E k \in DOMAIN closed_trades : all_trades[closed_trades[k]].profit > 0
    /\ \E k \in DOMAIN closed_trades : all_trades[closed_trades[k]].profit < 0
    /\ balance # INITIAL_BALANCE

----------------------------------------------------------------------------
(* C3: within one direction epoch of a session a scale level opens at most *)
(* one SCALE trade (no two trades of a session, a day and a direction      *)
(* share their entry level), also after a take-profit close; and           *)
(* executed_scales only grows during a day, except that the first reversal *)
(* empties it.                                                             *)
C3_LevelTriggersOncePerEpoch ==
    /\ [](\A s \in Sessions : \A i, j \in TodaysTrades(s) :
            /\ all_trades[i].direction = all_trades[j].direction
            /\ all_trades[i].entry_price = all_trades[j].entry_price
            => i = j)
    /\ [][\A s \in Sessions :
            \/ IsPrefix(StateOf(s).executed_scales, StateOf(s)'.executed_scales)
            \/ /\ StateOf(s).reversal_count = 0
               /\ StateOf(s)'.reversal_count = 1
               /\ StateOf(s)'.executed_scales = <<>>
            \/ pc = "run" /\ pc' = "morning"]_vars

(* after a take-profit close a later row in the entry window touches the   *)
(* level of the closed trade again, in the same direction epoch            *)
C3_Witness ==
    \E s \in Sessions : \E i \in TodaysTrades(s) :
        /\ pc = LoopOf(s)
        /\ all_trades[i].exit_reason = "TP"
        /\ all_trades[i].exit_time < candle.time
        /\ StateOf(s).breakout_direction = all_trades[i].direction
        /\ InWindow(s, candle.time)
        /\ Touches(all_trades[i].direction, all_trades[i].entry_price, candle)

----------------------------------------------------------------------------
(* C4: every trade of a session is entered strictly after the breakout     *)
(* candle of the session, so arming opens no trade.                        *)
C4_NoEntryOnBreakoutCandle ==
    \A s \in Sessions : \A i \in TodaysTrades(s) :
        /\ StateOf(s).breakout_candle_time # None
        /\ all_trades[i].entry_time > StateOf(s).breakout_candle_time

(* the breakout candle itself reaches the first scale level and the        *)
(* session has opened no trade                                             *)
C4_Witness ==
    \E s \in Sessions :
        /\ pc = LoopOf(s)
        /\ StateOf(s).breakout_candle_time = candle.time
        /\ StateOf(s).breakout_direction # "None"
        /\ Touches(StateOf(s).breakout_direction, StateOf(s).scale_levels[1], candle)
        /\ TodaysTrades(s) = {}

----------------------------------------------------------------------------
(* the trades open in session s before the step are all closed by it with  *)
(* the given reason at the given price, at the time of the row             *)
AllClosedAs(s, reason, price) ==
    \A i \in IdsOf(StateOf(s).open_trades) :
        /\ all_trades'[i].exit_reason = reason
        /\ all_trades'[i].exit_price = price
        /\ all_trades'[i].exit_time = candle'.time

SomeOpenReachesTP(s) ==
    \E i \in IdsOf(StateOf(s).open_trades) : ReachesTP(all_trades[i], candle')

(* C5 as stated: whenever a row reaches the take-profit price of an open   *)
(* trade, every open trade of the session is closed on that row with       *)
(* reason TP at the session's tp_price.                                    *)
C5_Original ==
    [][\A s \in Sessions :
          CandleStep(s) /\ SomeOpenReachesTP(s)
             => AllClosedAs(s, "TP", StateOf(s).tp_price)]_vars

(* C5 amended: the same for every row but the afternoon row at or after    *)
(* AFTERNOON_EXIT_TIME (there the force close comes first).                *)
C5_TakeProfitClosesAll ==
    [][\A s \in Sessions :
          /\ CandleStep(s)
          /\ SomeOpenReachesTP(s)
          /\ ~(s = "AFTERNOON" /\ TimeOnly(candle'.time) >= AFTERNOON_EXIT_TIME)
          => AllClosedAs(s, "TP", StateOf(s).tp_price)]_vars

(* two trades were closed by the take-profit on the row just read, one of  *)
(* them exactly at its take-profit price                                   *)
C5_Witness ==
    \E s \in Sessions : \E i, j \in TodaysTrades(s) :
        /\ pc = LoopOf(s)
        /\ i # j
        /\ all_trades[i].exit_reason = "TP" /\ all_trades[i].exit_time = candle.time
        /\ all_trades[j].exit_reason = "TP" /\ all_trades[j].exit_time = candle.time
        /\ \/ all_trades[i].direction = "BUY" /\ candle.high = all_trades[i].tp_price
           \/ all_trades[i].direction = "SELL" /\ candle.low = all_trades[i].tp_price

----------------------------------------------------------------------------
(* C6: a row on which the take-profit closes trades leaves                 *)
(* breakout_direction, scale_levels, reversal_count and tp_price as they   *)
(* were and executed_scales only extended, unless its close is beyond the  *)
(* opposite boundary; the row still triggers the untriggered levels it     *)
(* touches, and a close beyond the opposite boundary is still handled as a *)
(* reversal.                                                               *)
C6_TakeProfitKeepsSession ==
    [][\A s \in Sessions :
          /\ CandleStep(s)
          /\ \E i \in IdsOf(StateOf(s).open_trades) : all_trades'[i].exit_reason = "TP"
          => IF ClosesBeyond(StateOf(s), candle')
             THEN StateOf(s)'.breakout_direction # StateOf(s).breakout_direction
             ELSE /\ StateOf(s)'.breakout_direction = StateOf(s).breakout_direction
                  /\ StateOf(s)'.scale_levels = StateOf(s).scale_levels
                  /\ StateOf(s)'.reversal_count = StateOf(s).reversal_count
                  /\ StateOf(s)'.tp_price = StateOf(s).tp_price
                  /\ IsPrefix(StateOf(s).executed_scales, StateOf(s)'.executed_scales)
                  /\ InWindow(s, candle'.time)
                     => \A k \in DOMAIN StateOf(s).scale_levels :
                           Touches(StateOf(s).breakout_direction,
                                   StateOf(s).scale_levels[k], candle')
                              => InSeq(StateOf(s).scale_levels[k],
                                       StateOf(s)'.executed_scales)]_vars

(* after a take-profit close a later row reverses the session *)
C6_Witness ==
    \E s \in Sessions : \E i \in TodaysTrades(s) :
        /\ pc = LoopOf(s)
        /\ all_trades[i].exit_reason = "TP"
        /\ all_trades[i].exit_time < candle.time
        /\ StateOf(s).reversal_count = 1
        /\ StateOf(s).breakout_direction = Opposite(all_trades[i].direction)
        /\ StateOf(s).breakout_price = candle.close

----------------------------------------------------------------------------
(* the trades open before the step were closed by the reversal at the      *)
(* close of the row, unless the take-profit check of the same row closed   *)
(* them first                                                              *)
ClosedByReversal(s) ==
    \A i \in IdsOf(StateOf(s).open_trades) :
        /\ all_trades'[i].exit_time = candle'.time
        /\ \/ /\ all_trades'[i].exit_reason = "REVERSAL"
              /\ all_trades'[i].exit_price = candle'.close
           \/ /\ all_trades'[i].exit_reason = "TP"
              /\ SomeOpenReachesTP(s)

(* the trades opened by the step are in direction d and were closed with   *)
(* reason REVERSAL at the close of the row                                 *)
OpenedAndReversed(s, d) ==
    \A i \in (DOMAIN all_trades') \ (DOMAIN all_trades) :
        /\ all_trades'[i].direction = d
        /\ all_trades'[i].exit_reason = "REVERSAL"
        /\ all_trades'[i].exit_price = candle'.close

(* C7: first reversal.  On a row inside the entry window that closes       *)
(* beyond the opposite boundary while reversal_count = 0, the trades still *)
(* open are closed at that close with reason REVERSAL, the direction       *)
(* flips, reversal_count becomes 1, tp_price is recomputed from the close, *)
(* the ladder becomes the single 50% level, executed_scales is cleared and *)
(* no trade in the new direction is opened.                                *)
C7_FirstReversal ==
    [][\A s \in Sessions :
          /\ CandleStep(s)
          /\ StateOf(s).breakout_direction # "None"
          /\ StateOf(s).reversal_count = 0
          /\ ClosesBeyond(StateOf(s), candle')
          /\ InWindow(s, candle'.time)
          => /\ ClosedByReversal(s)
             /\ OpenedAndReversed(s, StateOf(s).breakout_direction)
             /\ StateOf(s)'.open_trades = <<>>
             /\ StateOf(s)'.breakout_direction = Opposite(StateOf(s).breakout_direction)
             /\ StateOf(s)'.reversal_count = 1
             /\ StateOf(s)'.breakout_price = candle'.close
             /\ StateOf(s)'.tp_price =
                   IF StateOf(s).breakout_direction = "BUY"
                   THEN candle'.close - TP_UNITS ELSE candle'.close + TP_UNITS
             /\ Len(StateOf(s)'.scale_levels) = 1
             /\ 2 * StateOf(s)'.scale_levels[1] = StateOf(s).range_high + StateOf(s).range_low
             /\ StateOf(s)'.executed_scales = <<>>]_vars

(* the first reversal closed a trade opened on an earlier row and a trade  *)
(* opened on the reversal row itself                                       *)
C7_Witness ==
    \E s \in Sessions : \E i, j \in TodaysTrades(s) :
        /\ pc = LoopOf(s)
        /\ StateOf(s).reversal_count = 1
        /\ StateOf(s).breakout_price = candle.close
        /\ StateOf(s).breakout_direction = Opposite(all_trades[i].direction)
        /\ all_trades[i].entry_time < candle.time
        /\ all_trades[j].entry_time = candle.time
        /\ all_trades[i].exit_reason = "REVERSAL" /\ all_trades[i].exit_time = candle.time
        /\ all_trades[j].exit_reason = "REVERSAL" /\ all_trades[j].exit_time = candle.time

----------------------------------------------------------------------------
(* once reversal_count is 2 the session stays unarmed and opens no trade   *)
(* until the states are reset for the next trading day                     *)
TerminatedForTheDay ==
    \A s \in Sessions :
        StateOf(s).reversal_count = 2
           => \/ pc = "run" /\ pc' = "morning"
              \/ /\ StateOf(s)'.reversal_count = 2
                 /\ StateOf(s)'.breakout_direction = "None"
                 /\ Cardinality(TodaysTrades(s))' = Cardinality(TodaysTrades(s))

SecondReversal(s) ==
    /\ ClosedByReversal(s)
    /\ OpenedAndReversed(s, StateOf(s).breakout_direction)
    /\ StateOf(s)'.open_trades = <<>>
    /\ StateOf(s)'.reversal_count = 2
    /\ StateOf(s)'.breakout_direction = "None"

(* C8 as stated: any second opposite-direction close while                 *)
(* reversal_count = 1 closes the open trades with reason REVERSAL, sets    *)
(* reversal_count to 2 and terminates the session for the day.             *)
C8_Original ==
    [][/\ \A s \in Sessions :
             /\ CandleStep(s)
             /\ StateOf(s).breakout_direction # "None"
             /\ StateOf(s).reversal_count = 1
             /\ ClosesBeyond(StateOf(s), candle')
             => SecondReversal(s)
       /\ TerminatedForTheDay]_vars

(* C8 amended: the same for a second opposite-direction close on a row     *)
(* inside the entry window.                                                *)
C8_SecondReversalTerminates ==
    [][/\ \A s \in Sessions :
             /\ CandleStep(s)
             /\ StateOf(s).breakout_direction # "None"
             /\ StateOf(s).reversal_count = 1
             /\ ClosesBeyond(StateOf(s), candle')
             /\ InWindow(s, candle'.time)
             => SecondReversal(s)
       /\ TerminatedForTheDay]_vars

(* the second reversal closed a trade of the reversal epoch that was       *)
(* opened on an earlier row                                                *)
C8_Witness ==
    \E s \in Sessions : \E i \in TodaysTrades(s) :
        /\ pc = LoopOf(s)
        /\ StateOf(s).reversal_count = 2
        /\ StateOf(s).breakout_direction = "None"
        /\ all_trades[i].entry_time < candle.time
        /\ all_trades[i].exit_reason = "REVERSAL"
        /\ all_trades[i].exit_time = candle.time

----------------------------------------------------------------------------
(* C9: no morning trade is entered later in the day than                   *)
(* MORNING_ENTRY_CUTOFF.  A morning row after the cutoff opens no trade    *)
(* (whatever level it touches); if it closes beyond the opposite boundary  *)
(* of an armed session, the open trades are closed at its close with       *)
(* reason REVERSAL and the session is unarmed, with reversal_count and the *)
(* ladder left as they were; an unarmed session stays unarmed.             *)
C9_MorningCutoff ==
    /\ [](\A i \in TradesOf("MORNING") :
             TimeOnly(all_trades[i].entry_time) <= MORNING_ENTRY_CUTOFF)
    /\ [][CandleStep("MORNING") /\ TimeOnly(candle'.time) > MORNING_ENTRY_CUTOFF
          => /\ Len(all_trades') = Len(all_trades)
             /\ morning_state.breakout_direction = "None"
                   => morning_state'.breakout_direction = "None"
             /\ morning_state.breakout_direction # "None"
                /\ ClosesBeyond(morning_state, candle')
                   => /\ ClosedByReversal("MORNING")
                      /\ morning_state'.open_trades = <<>>
                      /\ morning_state'.breakout_direction = "None"
                      /\ morning_state'.reversal_count = morning_state.reversal_count
                      /\ morning_state'.scale_levels = morning_state.scale_levels
                      /\ morning_state'.executed_scales = morning_state.executed_scales
                      /\ morning_state'.tp_price = morning_state.tp_price]_vars

(* a row after the cutoff closed a morning trade by reversal and touched a *)
(* level of the ladder that was never triggered                            *)
C9_Witness ==
    \E i \in TodaysTrades("MORNING") : \E k \in DOMAIN morning_state.scale_levels :
        /\ pc = "morning_loop"
        /\ TimeOnly(candle.time) > MORNING_ENTRY_CUTOFF
        /\ morning_state.breakout_direction = "None"
        /\ all_trades[i].exit_reason = "REVERSAL"
        /\ all_trades[i].exit_time = candle.time
        /\ ~InSeq(morning_state.scale_levels[k], morning_state.executed_scales)
        /\ Touches(all_trades[i].direction, morning_state.scale_levels[k], candle)

----------------------------------------------------------------------------
(* C10: the afternoon row at or after AFTERNOON_EXIT_TIME closes the open  *)
(* trades at its close with reason TIME_EXIT and ends the loop; when the   *)
(* rows end before it, the open trades are closed at the close of the last *)
(* row with reason SESSION_END; outside the afternoon loop the afternoon   *)
(* session has no open trade and all its trades are closed.                *)
C10_AfternoonForcedExit ==
    /\ [][CandleStep("AFTERNOON") /\ TimeOnly(candle'.time) >= AFTERNOON_EXIT_TIME
          => /\ AllClosedAs("AFTERNOON", "TIME_EXIT", candle'.close)
             /\ afternoon_state'.open_trades = <<>>
             /\ Len(all_trades') = Len(all_trades)
             /\ pc' = "afternoon_end"]_vars
    /\ [][pc = "afternoon_end" => nrows' = nrows /\ pc' = "run"]_vars
    /\ [][pc = "afternoon_loop" /\ pc' = "run"
          => /\ candle' = candle
             /\ AllClosedAs("AFTERNOON", "SESSION_END", candle.close)
             /\ afternoon_state'.open_trades = <<>>]_vars
    /\ [](pc \notin {"afternoon_loop", "afternoon_end"}
             => /\ afternoon_state.open_trades = <<>>
                /\ \A i \in TradesOf("AFTERNOON") : IsClosed(all_trades[i]))

(* process_afternoon_session has returned after a force close at the exit  *)
(* time that closed a trade                                                *)
C10_Witness ==
    \E i \in TodaysTrades("AFTERNOON") :
        /\ pc = "run"
        /\ all_trades[i].exit_reason = "TIME_EXIT"
        /\ all_trades[i].exit_time = candle.time
        /\ all_trades[i].exit_price = candle.close
        /\ TimeOnly(candle.time) >= AFTERNOON_EXIT_TIME

(* the rows ended before the exit time with a trade open *)
C10_SessionEndReached ==
    \E i \in TodaysTrades("AFTERNOON") :
        /\ pc = "run"
        /\ all_trades[i].exit_reason = "SESSION_END"
        /\ TimeOnly(all_trades[i].exit_time) < AFTERNOON_EXIT_TIME

----------------------------------------------------------------------------
(* the trades opened by the step *)
OpenedByStep == (DOMAIN all_trades') \ (DOMAIN all_trades)

(* C11: order of the checks on one row of an armed session.  The           *)
(* take-profit check precedes the scale check: no trade is closed with     *)
(* reason TP on the row that opened it, and a trade opened on a row whose  *)
(* close is not beyond the opposite boundary is still open after the row.  *)
(* The scale check precedes the reversal check: a trade opened on a row    *)
(* whose close is beyond the opposite boundary is closed on that row at    *)
(* its close with reason REVERSAL.  The reversal check precedes the        *)
(* drawdown sampling: a reversal row leaves the session drawdown and peak  *)
(* as they were.                                                           *)
C11_OrderOfChecks ==
    /\ [](\A i \in DOMAIN all_trades :
             ~(all_trades[i].exit_reason = "TP"
               /\ all_trades[i].exit_time = all_trades[i].entry_time))
    /\ [][\A s \in Sessions :
            CandleStep(s)
               => IF ClosesBeyond(StateOf(s), candle')
                  THEN /\ \A i \in OpenedByStep :
                            /\ all_trades'[i].exit_reason = "REVERSAL"
                            /\ all_trades'[i].exit_price = candle'.close
                            /\ all_trades'[i].exit_time = candle'.time
                       /\ StateOf(s)'.session_max_drawdown = StateOf(s).session_max_drawdown
                       /\ StateOf(s)'.session_peak_balance = StateOf(s).session_peak_balance
                  ELSE \A i \in OpenedByStep :
                            /\ ~IsClosed(all_trades'[i])
                            /\ i \in IdsOf(StateOf(s)'.open_trades)]_vars

(* a trade opened on the row just read is still open although the row      *)
(* reaches its take-profit price                                           *)
C11_Witness ==
    \E s \in Sessions : \E i \in IdsOf(StateOf(s).open_trades) :
        /\ pc = LoopOf(s)
        /\ all_trades[i].entry_time = candle.time
        /\ ReachesTP(all_trades[i], candle)

----------------------------------------------------------------------------
(* the morning session is armed BUY on the range 1.10500 / 1.10000 with    *)
(* the three levels of the initial ladder untriggered, and the step reads  *)
(* a later row inside the entry window                                     *)
ScenarioB ==
    /\ CandleStep("MORNING")
    /\ morning_state.range_high = 110500
    /\ morning_state.range_low = 110000
    /\ morning_state.breakout_direction = "BUY"
    /\ morning_state.scale_levels = <<110125, 110250, 110375>>
    /\ morning_state.executed_scales = <<>>
    /\ candle'.time > morning_state.breakout_candle_time
    /\ InWindow("MORNING", candle'.time)

(* the entry prices of the trades opened by the step, in the order opened *)
OpenedPrices ==
    [k \in 1..(Len(all_trades') - Len(all_trades)) |->
        all_trades'[Len(all_trades) + k].entry_price]

(* C12 as stated: in scenario B a row with low = 1.10100 triggers the      *)
(* 1.10125 level only; the other two levels stay untriggered.              *)
C12_Original ==
    [][ScenarioB /\ candle'.low = 110100
          => /\ morning_state'.executed_scales = <<110125>>
             /\ OpenedPrices = <<110125>>]_vars

(* C12 amended: in scenario B a row with low = 1.10100 triggers the three  *)
(* levels 1.10125, 1.10250 and 1.10375, each being at or above the low; a  *)
(* row with low = 1.10300 triggers the 1.10375 level only.                 *)
C12_PullbackTriggersLevels ==
    [][/\ ScenarioB /\ candle'.low = 110100
          => /\ morning_state'.executed_scales = <<110125, 110250, 110375>>
             /\ OpenedPrices = <<110125, 110250, 110375>>
       /\ ScenarioB /\ candle'.low = 110300
          => /\ morning_state'.executed_scales = <<110375>>
             /\ OpenedPrices = <<110375>>]_vars

(* the row just read has low = 1.10100 and opened the three trades of the  *)
(* ladder of scenario B                                                    *)
C12_Witness ==
    /\ pc = "morning_loop"
    /\ candle.low = 110100
    /\ morning_state.range_high = 110500
    /\ morning_state.range_low = 110000
    /\ morning_state.breakout_direction = "BUY"
    /\ morning_state.executed_scales = <<110125, 110250, 110375>>
    /\ Len(morning_state.open_trades) = 3
    /\ \A k \in 1..3 : all_trades[morning_state.open_trades[k]].entry_time = candle.time

(* a row with low = 1.10300 opened the trade of the 1.10375 level alone *)
C12_PartialReached ==
    /\ pc = "morning_loop"
    /\ candle.low = 110300
    /\ morning_state.range_high = 110500
    /\ morning_state.executed_scales = <<110375>>
    /\ Len(morning_state.open_trades) = 1
    /\ all_trades[morning_state.open_trades[1]].entry_time = candle.time

----------------------------------------------------------------------------
(* price is the level at percent % of the range of st, measured from       *)
(* range_high downwards for BUY and from range_low upwards for SELL        *)
AtPercent(st, price, percent) ==
    IF st.breakout_direction = "BUY"
    THEN 100 * (st.range_high - price) = percent * (st.range_high - st.range_low)
    ELSE 100 * (price - st.range_low) = percent * (st.range_high - st.range_low)

(* the step reads a row of session s while its initial ladder is in force  *)
(* and the range is not flat                                               *)
InitialLadderStep(s) ==
    /\ CandleStep(s)
    /\ StateOf(s).breakout_direction # "None"
    /\ StateOf(s).reversal_count = 0
    /\ StateOf(s).range_high > StateOf(s).range_low

(* C13 as stated: of the SCALE trades of the initial ladder the one at the *)
(* 25% level has a larger lot size than the one at the 75% level.          *)
C13_Original ==
    [][\A s \in Sessions :
          InitialLadderStep(s)
             => \A i, j \in OpenedByStep :
                   /\ AtPercent(StateOf(s), all_trades'[i].entry_price, 25)
                   /\ AtPercent(StateOf(s), all_trades'[j].entry_price, 75)
                   => all_trades'[i].lot_size > all_trades'[j].lot_size]_vars

(* C13 amended: a SCALE trade of the initial ladder has 4 times LOT_SIZE   *)
(* at the 75% level, 3 times at the 50% level and 2 times at the 25%       *)
(* level; the 75% level is the deepest pullback (the level farthest from   *)
(* the boundary that was broken).                                          *)
C13_LotSizeSchedule ==
    [][\A s \in Sessions :
          InitialLadderStep(s)
             => \A i \in OpenedByStep :
                   LET tr == all_trades'[i]
                   IN  /\ tr.trade_type = "SCALE"
                       /\ \/ AtPercent(StateOf(s), tr.entry_price, 75)
                             /\ tr.lot_size = 4 * LOT_SIZE
                             /\ IF tr.direction = "BUY"
                                THEN \A k \in DOMAIN StateOf(s).scale_levels :
                                        tr.entry_price <= StateOf(s).scale_levels[k]
                                ELSE \A k \in DOMAIN StateOf(s).scale_levels :
                                        tr.entry_price >= StateOf(s).scale_levels[k]
                          \/ AtPercent(StateOf(s), tr.entry_price, 50)
                             /\ tr.lot_size = 3 * LOT_SIZE
                          \/ AtPercent(StateOf(s), tr.entry_price, 25)
                             /\ tr.lot_size = 2 * LOT_SIZE]_vars

(* one row opened the trades of the 75% level and of the 25% level of a    *)
(* range that is not flat, with 4 and 2 times LOT_SIZE                     *)
C13_Witness ==
    \E s \in Sessions : \E i, j \in IdsOf(StateOf(s).open_trades) :
        /\ pc = LoopOf(s)
        /\ StateOf(s).reversal_count = 0
        /\ StateOf(s).range_high > StateOf(s).range_low
        /\ all_trades[i].entry_time = candle.time
        /\ all_trades[j].entry_time = candle.time
        /\ AtPercent(StateOf(s), all_trades[i].entry_price, 75)
        /\ AtPercent(StateOf(s), all_trades[j].entry_price, 25)
        /\ all_trades[i].lot_size = 4 * LOT_SIZE
        /\ all_trades[j].lot_size = 2 * LOT_SIZE

----------------------------------------------------------------------------
(* the levels of st are those of the percentages, each within the range *)
LadderIs(st, percentages) ==
    /\ Len(st.scale_levels) = Len(percentages)
    /\ \A k \in DOMAIN percentages :
          /\ AtPercent(st, st.scale_levels[k], percentages[k])
          /\ st.range_low <= st.scale_levels[k]
          /\ st.scale_levels[k] <= st.range_high

TpIs(st, close) ==
    st.tp_price = IF st.breakout_direction = "BUY" THEN close + TP_UNITS
                  ELSE close - TP_UNITS

(* C14: the row that arms a session sets tp_price to its close plus        *)
(* (BUY) or minus (SELL) the take-profit distance and the ladder to the    *)
(* levels at 75%, 50% and 25% of the range, measured from range_high       *)
(* downwards (BUY) or from range_low upwards (SELL); the row of the first  *)
(* reversal sets the ladder to the 50% level of the new direction; every   *)
(* level lies within the range.  For the range 1.10500 / 1.10000 and a BUY *)
(* breakout at 1.10600 the take-profit is 1.11180 and the levels are       *)
(* 1.10125, 1.10250, 1.10375.                                              *)
C14_TakeProfitAndLadder ==
    [][\A s \in Sessions :
          CandleStep(s)
             => /\ ~StateOf(s).initial_breakout_done /\ StateOf(s)'.initial_breakout_done
                   => /\ StateOf(s)'.breakout_direction \in {"BUY", "SELL"}
                      /\ TpIs(StateOf(s)', candle'.close)
                      /\ LadderIs(StateOf(s)', <<75, 50, 25>>)
                      /\ /\ StateOf(s).range_high = 110500
                         /\ StateOf(s).range_low = 110000
                         /\ candle'.close = 110600
                         => /\ StateOf(s)'.breakout_direction = "BUY"
                            /\ StateOf(s)'.tp_price = 111180
                            /\ StateOf(s)'.scale_levels = <<110125, 110250, 110375>>
                /\ StateOf(s).reversal_count = 0 /\ StateOf(s)'.reversal_count = 1
                   => /\ TpIs(StateOf(s)', candle'.close)
                      /\ LadderIs(StateOf(s)', <<50>>)]_vars

(* the row just read armed the session BUY at 1.10600 on the range         *)
(* 1.10500 / 1.10000                                                       *)
C14_Witness ==
    /\ pc = "morning_loop"
    /\ morning_state.breakout_candle_time = candle.time
    /\ candle.close = 110600
    /\ morning_state.range_high = 110500
    /\ morning_state.range_low = 110000
    /\ morning_state.tp_price = 111180
    /\ morning_state.scale_levels = <<110125, 110250, 110375>>

(* a first reversal replaced the ladder of a range that is not flat *)
C14_ReversalLadderReached ==
    /\ pc = "morning_loop"
    /\ morning_state.reversal_count = 1
    /\ morning_state.breakout_price = candle.close
    /\ Len(morning_state.scale_levels) = 1

----------------------------------------------------------------------------
(* the step begins session s: it reads the rows of the range window *)
BeginStep(s) ==
    IF s = "MORNING" THEN pc = "morning" /\ pc' # "morning"
    ELSE pc = "afternoon" /\ pc' # "afternoon"

(* where the run continues when session s is skipped *)
AfterSkipped(s) == IF s = "MORNING" THEN "afternoon" ELSE "run"

(* C15: a session whose range window holds fewer than 3 rows gets no range *)
(* and is skipped: the step that begins it changes neither all_trades,     *)
(* closed_trades, balance nor the drawdown lists and the candle loop is    *)
(* not entered; a session without a range is unarmed and has no trade.     *)
(* With 3 rows the range is the maximum of the highs and the minimum of    *)
(* the lows.                                                               *)
C15_RangeNeedsThreeRows ==
    /\ [][\A s \in Sessions :
            BeginStep(s)
               => IF Len(range_data') < 3
                  THEN /\ StateOf(s)'.range_high = None
                       /\ StateOf(s)'.range_low = None
                       /\ pc' = AfterSkipped(s)
                       /\ UNCHANGED <<all_trades, closed_trades, balance,
                                      morning_session_drawdowns,
                                      afternoon_session_drawdowns>>
                  ELSE /\ \E k \in DOMAIN range_data' :
                             StateOf(s)'.range_high = range_data'[k].high
                       /\ \E k \in DOMAIN range_data' :
                             StateOf(s)'.range_low = range_data'[k].low
                       /\ \A k \in DOMAIN range_data' :
                             /\ StateOf(s)'.range_high >= range_data'[k].high
                             /\ StateOf(s)'.range_low <= range_data'[k].low
                       /\ pc' = LoopOf(s)]_vars
    /\ [](\A s \in Sessions :
             StateOf(s).range_high = None
                => /\ StateOf(s).breakout_direction = "None"
                   /\ ~StateOf(s).initial_breakout_done
                   /\ StateOf(s).open_trades = <<>>
                   /\ TodaysTrades(s) = {}
                   /\ pc # LoopOf(s))

(* the morning session was skipped on a window of 2 rows *)
C15_Witness ==
    /\ pc = "afternoon"
    /\ Len(range_data) = 2
    /\ morning_state.range_high = None
    /\ TodaysTrades("MORNING") = {}

(* a window of 3 rows with different highs and lows gave a range *)
C15_RangeReached ==
    /\ pc = "morning_loop"
    /\ Len(range_data) = 3
    /\ range_data[1].high < morning_state.range_high
    /\ range_data[3].low > morning_state.range_low

----------------------------------------------------------------------------
(* the step ends session s after its candle loop *)
EndStep(s) ==
    IF s = "MORNING" THEN pc = "morning_loop" /\ pc' = "afternoon"
    ELSE pc \in {"afternoon_loop", "afternoon_end"} /\ pc' = "run"

DrawdownsOf(s) ==
    IF s = "MORNING" THEN morning_session_drawdowns ELSE afternoon_session_drawdowns

ClosesOutside(st, c) == c.close > st.range_high \/ c.close < st.range_low

(* C16: a row that does not close outside the range inside the entry       *)
(* window leaves a session that has not been armed exactly as it was and   *)
(* opens and closes no trade; a session that has never been armed has no   *)
(* trade and a session drawdown of 0, and the step that ends it appends    *)
(* nothing to the drawdown list of its slot.                               *)
C16_NoBreakoutNoTrades ==
    /\ [][\A s \in Sessions :
            /\ CandleStep(s)
            /\ ~StateOf(s).initial_breakout_done
            /\ ~(InWindow(s, candle'.time) /\ ClosesOutside(StateOf(s), candle'))
            => /\ StateOf(s)' = StateOf(s)
               /\ UNCHANGED <<all_trades, closed_trades, balance>>]_vars
    /\ [](\A s \in Sessions :
             ~StateOf(s).initial_breakout_done
                => /\ StateOf(s).breakout_direction = "None"
                   /\ TodaysTrades(s) = {}
                   /\ StateOf(s).session_max_drawdown = 0)
    /\ [][\A s \in Sessions :
            EndStep(s) /\ ~StateOf(s).initial_breakout_done
               => /\ DrawdownsOf(s)' = DrawdownsOf(s)
                  /\ UNCHANGED <<all_trades, closed_trades, balance>>]_vars

(* the morning loop has ended after reading rows without arming the        *)
(* session and nothing was appended to the drawdown list                   *)
C16_Witness ==
    /\ pc = "afternoon"
    /\ nrows >= 2
    /\ morning_state.range_high # None
    /\ ~morning_state.initial_breakout_done
    /\ TodaysTrades("MORNING") = {}
    /\ morning_session_drawdowns = <<>>

(* a row after the cutoff closed outside the range of an unarmed session *)
C16_LateBreakoutReached ==
    /\ pc = "morning_loop"
    /\ candle.time # None
    /\ TimeOnly(candle.time) > MORNING_ENTRY_CUTOFF
    /\ ClosesOutside(morning_state, candle)
    /\ ~morning_state.initial_breakout_done

----------------------------------------------------------------------------
ExitReasons == {"TP", "REVERSAL", "TIME_EXIT", "SESSION_END"}

(* C17: every trade in closed_trades has exit_time >= entry_time and one   *)
(* of the exit reasons TP, REVERSAL, TIME_EXIT, SESSION_END; no trade is   *)
(* twice in closed_trades; a closed trade is never changed again and       *)
(* closed_trades only grows at its end.                                    *)
C17_ClosedOnce ==
    /\ [](\A k \in DOMAIN closed_trades :
             LET tr == all_trades[closed_trades[k]]
             IN  /\ tr.exit_time >= tr.entry_time
                 /\ tr.exit_reason \in ExitReasons
                 /\ \A m \in DOMAIN closed_trades :
                       closed_trades[m] = closed_trades[k] => m = k)
    /\ [][/\ \A i \in DOMAIN all_trades :
               IsClosed(all_trades[i]) => all_trades'[i] = all_trades[i]
          /\ IsPrefix(closed_trades, closed_trades')]_vars

(* a trade closed on an earlier row is in closed_trades together with a    *)
(* trade of the same session closed on the row just read                   *)
C17_Witness ==
    \E k, m \in DOMAIN closed_trades :
        /\ k < m
        /\ all_trades[closed_trades[k]].session = all_trades[closed_trades[m]].session
        /\ all_trades[closed_trades[k]].exit_time < candle.time
        /\ all_trades[closed_trades[m]].exit_time = candle.time
        /\ all_trades[closed_trades[m]].entry_time > all_trades[closed_trades[k]].exit_time

----------------------------------------------------------------------------
(* C18: a call of close_trade on a trade that is already closed is         *)
(* rejected: it leaves the exit fields of the trade, closed_trades and     *)
(* balance as they were.                                                   *)
C18_SecondCloseRejected ==
    [][CloseAgain => UNCHANGED <<all_trades, closed_trades, balance>>]_vars

----------------------------------------------------------------------------
(* equity of session s after the step at price p: the balance plus the     *)
(* floating profit of the trades the step leaves open                      *)
EquityAt(s, p) == balance' + FloatingSum(all_trades', StateOf(s)'.open_trades, p)

Larger(a, b) == IF a >= b THEN a ELSE b

Smaller(a, b) == IF a <= b THEN a ELSE b

(* C19: a row that ends without open trades leaves session_peak_balance    *)
(* and session_max_drawdown as they were.  A row that ends with open       *)
(* trades samples the equity at its high, its low and its close, in this   *)
(* order: the peak becomes the larger of the old peak and the equity at    *)
(* the close, and is raised by no sample at another price;                 *)
(* session_max_drawdown becomes the smallest of its old value and of       *)
(* equity - peak at the three samples, the peak being the running one (the *)
(* new peak from the first sample at the close price on).                  *)
C19_DrawdownSampling ==
    [][\A s \in Sessions :
          CandleStep(s)
             => LET old == StateOf(s)
                    new == StateOf(s)'
                    c == candle'
                    peak == Larger(old.session_peak_balance, EquityAt(s, c.close))
                    at_high == IF c.high = c.close THEN peak ELSE old.session_peak_balance
                    at_low == IF c.high = c.close \/ c.low = c.close
                              THEN peak ELSE old.session_peak_balance
                IN  IF new.open_trades = <<>>
                    THEN /\ new.session_peak_balance = old.session_peak_balance
                         /\ new.session_max_drawdown = old.session_max_drawdown
                    ELSE /\ new.session_peak_balance = peak
                         /\ new.session_max_drawdown =
                               Smaller(old.session_max_drawdown,
                                 Smaller(EquityAt(s, c.high) - at_high,
                                   Smaller(EquityAt(s, c.low) - at_low,
                                           EquityAt(s, c.close) - peak)))]_vars

(* with trades open, the peak has risen above the balance at the start of  *)
(* the session and the drawdown of the row just read is below 0            *)
C19_Witness ==
    \E s \in Sessions :
        /\ pc = LoopOf(s)
        /\ StateOf(s).open_trades # <<>>
        /\ StateOf(s).session_peak_balance > StateOf(s).session_start_balance
        /\ StateOf(s).session_max_drawdown < 0
        /\ candle.low < candle.close
        /\ candle.close < candle.high

(* the first sampled row raised the peak from its high = close sample and  *)
(* measured the low sample against the raised peak                         *)
C19_RunningPeakReached ==
    \E s \in Sessions : \E i \in IdsOf(StateOf(s).open_trades) :
        /\ pc = LoopOf(s)
        /\ Len(StateOf(s).open_trades) = 1
        /\ all_trades[i].entry_time = candle.time
        /\ closed_trades = <<>>
        /\ candle.high = candle.close
        /\ StateOf(s).session_peak_balance > StateOf(s).session_start_balance
        /\ StateOf(s).session_max_drawdown < 0

----------------------------------------------------------------------------
(* C20: trades are appended to closed_trades in non-decreasing order of    *)
(* exit_time.                                                              *)
C20_ClosedInTimeOrder ==
    \A k, m \in DOMAIN closed_trades :
        k < m => all_trades[closed_trades[k]].exit_time
                    <= all_trades[closed_trades[m]].exit_time

----------------------------------------------------------------------------
AllDone == pc = "sessions" /\ \A s \in Sessions : loops[s].pc = "done"

(* the closed trades of a ledger, as a set of Trade objects *)
ClosedSet(all, closed) == {all[closed[i]] : i \in DOMAIN closed}

ClosedOf(s) == {i \in DOMAIN closed_trades : all_trades[closed_trades[i]].session = s}

(* C21: whatever the order in which the steps of the morning and of the    *)
(* afternoon session of a day are taken, the day ends with the same closed *)
(* trades (entry and exit prices, times, reasons, profits) and the same    *)
(* balance as run()'s morning-then-afternoon processing of the same rows.  *)
C21_SessionsIndependent ==
    AllDone =>
        LET R == RunDay(df_day)
        IN  /\ ClosedSet(all_trades, closed_trades) = ClosedSet(R.all, R.closed)
            /\ Len(closed_trades) = Len(R.closed)
            /\ balance = R.bal

(* a day on which an afternoon trade was closed before a morning trade,    *)
(* both sessions having closed trades: an order run() does not take        *)
C21_Witness ==
    /\ AllDone
    /\ \E i \in ClosedOf("AFTERNOON") : \E j \in ClosedOf("MORNING") : i < j
    /\ closed_trades # RunDay(df_day).closed
    /\ balance # INITIAL_BALANCE

----------------------------------------------------------------------------
(* The ledger at the end of a day *)

(* C32: at the end of a backtest_nas.py run every opened trade has been    *)
(* closed: all_trades and closed_trades contain the same trades, so no     *)
(* trade is still open when its session state is reset for the next day or *)
(* when the run ends.                                                      *)
C32_EveryTradeClosed ==
    pc = "run" =>
        /\ IdsOf(closed_trades) = DOMAIN all_trades
        /\ \A i \in DOMAIN all_trades : IsClosed(all_trades[i])
        /\ \A s \in Sessions : StateOf(s).open_trades = <<>>

(* the trades session s holds open *)
OpenOf(s) == {all_trades[StateOf(s).open_trades[k]] : k \in DOMAIN StateOf(s).open_trades}

(* C33: in backtest_nas.py, between any two processing steps every trade   *)
(* in a session's open_trades has direction equal to the session's         *)
(* breakout_direction and tp_price equal to the session's current          *)
(* tp_price: open trades always belong to the current direction epoch.     *)
C33_OpenTradesOfCurrentEpoch ==
    \A s \in Sessions : \A tr \in OpenOf(s) :
        /\ tr.direction = StateOf(s).breakout_direction
        /\ tr.tp_price = StateOf(s).tp_price
        /\ ~IsClosed(tr)

(* a session holds a trade open in the direction of its reversal, the      *)
(* reversal having closed a trade of the first direction                   *)
C33_Witness ==
    \E s \in Sessions :
        /\ StateOf(s).reversal_count = 1
        /\ OpenOf(s) # {}
        /\ \E i \in TodaysTrades(s) :
              /\ all_trades[i].exit_reason = "REVERSAL"
              /\ all_trades[i].direction = Opposite(StateOf(s).breakout_direction)

(* level a of a ladder in direction d is shallower than level b: nearer   *)
(* to the boundary the breakout crossed                                    *)
Shallower(d, a, b) == IF d = "BUY" THEN a > b ELSE a < b

(* the executed levels of state st hold every level of its ladder that is  *)
(* shallower than one of them                                              *)
ClosedTowardsShallow(st) ==
    \A i \in DOMAIN st.scale_levels : \A j \in DOMAIN st.scale_levels :
        /\ InSeq(st.scale_levels[i], st.executed_scales)
        /\ Shallower(st.breakout_direction, st.scale_levels[j], st.scale_levels[i])
        => InSeq(st.scale_levels[j], st.executed_scales)

(* C34: in backtest_nas.py, within one direction epoch the set of          *)
(* triggered levels is closed towards the shallow side: in a BUY epoch a   *)
(* candle that triggers a level also triggers, on that same candle, every  *)
(* untriggered level above it (in a SELL epoch every untriggered level     *)
(* below it), so a deeper level is never in executed_scales while a        *)
(* shallower level of the same ladder is not.                              *)
C34_TriggeredLevelsClosed ==
    /\ [](\A s \in Sessions :
            StateOf(s).breakout_direction # "None" => ClosedTowardsShallow(StateOf(s)))
    /\ [][\A s \in Sessions :
            CandleStep(s) /\ StateOf(s)'.executed_scales # StateOf(s).executed_scales
                          /\ StateOf(s)'.reversal_count = StateOf(s).reversal_count
                          /\ StateOf(s)'.breakout_direction # "None"
            => \A j \in DOMAIN StateOf(s)'.scale_levels :
                  Touches(StateOf(s)'.breakout_direction, StateOf(s)'.scale_levels[j], candle')
                  => InSeq(StateOf(s)'.scale_levels[j], StateOf(s)'.executed_scales)]_vars

(* a session in its initial epoch has executed the two shallower levels of *)
(* a ladder of three distinct levels, and not the deepest                  *)
C34_Witness ==
    \E s \in Sessions :
        LET st == StateOf(s)
        IN  /\ st.breakout_direction # "None"
            /\ st.reversal_count = 0
            /\ Len(st.scale_levels) = 3
            /\ Len(st.executed_scales) = 2
            /\ st.scale_levels[1] # st.scale_levels[2]
            /\ st.scale_levels[2] # st.scale_levels[3]
            /\ ~InSeq(st.scale_levels[1], st.executed_scales)

(* today's trades of session s in direction d *)
TodaysIn(s, d) == {i \in TodaysTrades(s) : all_trades[i].direction = d}

(* C35: in backtest_nas.py a session opens at most 4 trades per trading    *)
(* day: at most 3 SCALE trades in the initial epoch and at most 1 SCALE    *)
(* trade in the reversal epoch; no trade of kind INITIAL or REVERSAL is    *)
(* ever created.                                                           *)
C35_AtMostFourTrades ==
    \A s \in Sessions :
        LET st == StateOf(s)
        IN  /\ Cardinality(TodaysTrades(s)) <= 4
            /\ \A i \in DOMAIN all_trades : all_trades[i].trade_type = "SCALE"
            /\ st.reversal_count = 0 => Cardinality(TodaysTrades(s)) <= 3
            /\ st.reversal_count = 1 =>
                   /\ Cardinality(TodaysIn(s, Opposite(st.breakout_direction))) <= 3
                   /\ Cardinality(TodaysIn(s, st.breakout_direction)) <= 1
            /\ \E d \in {"BUY", "SELL"} :
                   /\ Cardinality(TodaysIn(s, Opposite(d))) <= 3
                   /\ Cardinality(TodaysIn(s, d)) <= 1

(* a session has opened 4 trades on one day: 3 in the direction of its     *)
(* initial breakout and 1 in the direction of its reversal                 *)
C35_Witness ==
    \E s \in Sessions :
        /\ StateOf(s).reversal_count = 1
        /\ Cardinality(TodaysIn(s, Opposite(StateOf(s).breakout_direction))) = 3
        /\ Cardinality(TodaysIn(s, StateOf(s).breakout_direction)) = 1

(* the positions in all_trades of the trades closed with the given reason *)
ClosedAs(reason) == {i \in DOMAIN all_trades : all_trades[i].exit_reason = reason}

(* C36: in backtest_nas.py, given range_high >= range_low, every trade     *)
(* closed with reason REVERSAL has a strictly negative profit: its entry   *)
(* level lies within the range and its exit price is the reversal close    *)
(* beyond the opposite boundary.                                           *)
C36_ReversalCloseLoses ==
    \A i \in ClosedAs("REVERSAL") :
        LET tr == all_trades[i]
        IN  /\ tr.profit < 0
            /\ tr.direction = "BUY" => tr.exit_price < tr.entry_price
            /\ tr.direction = "SELL" => tr.exit_price > tr.entry_price

(* a reversal has closed a trade entered at the boundary its close lies    *)
(* beyond: the range has one price only                                    *)
C36_Witness ==
    \E s \in Sessions : \E i \in ClosedAs("REVERSAL") \cap TodaysTrades(s) :
        /\ StateOf(s).range_high = StateOf(s).range_low
        /\ all_trades[i].entry_price = StateOf(s).range_low
        /\ all_trades[i].profit < 0

(* C37: in backtest_nas.py, given range_high >= range_low and TP_UNITS > 0, *)
(* every trade closed with reason TP has a strictly positive profit: the   *)
(* session TP lies beyond the breakout close, which lies outside the range *)
(* that contains every entry level.                                        *)
C37_TakeProfitCloseWins ==
    \A i \in ClosedAs("TP") :
        LET tr == all_trades[i]
        IN  /\ tr.profit > 0
            /\ tr.exit_price = tr.tp_price
            /\ tr.direction = "BUY" => tr.tp_price > tr.entry_price
            /\ tr.direction = "SELL" => tr.tp_price < tr.entry_price

(* the take-profit has closed a trade of the reversal epoch of a session   *)
C37_Witness ==
    \E s \in Sessions : \E i \in ClosedAs("TP") \cap TodaysTrades(s) :
        /\ StateOf(s).reversal_count = 1
        /\ all_trades[i].direction = StateOf(s).breakout_direction
        /\ all_trades[i].profit > 0

(* process_*_session of session s is running: its tracking is initialised  *)
(* and its drawdown not yet stored                                         *)
InSession(s) == pc = LoopOf(s) \/ (s = "AFTERNOON" /\ pc = "afternoon_end")

(* C38: within one session in backtest_nas.py, session_max_drawdown is     *)
(* always <= 0 and never increases, session_peak_balance never decreases   *)
(* and is never below the balance at session start, and the session        *)
(* appends at most one value to its slot's drawdown list, which is         *)
(* strictly negative.                                                      *)
C38_SessionDrawdownMonotone ==
    /\ [](\A s \in Sessions :
            /\ StateOf(s).session_max_drawdown <= 0
            /\ StateOf(s).session_peak_balance >= StateOf(s).session_start_balance
            /\ Len(DrawdownsOf(s)) <= date
            /\ \A k \in DOMAIN DrawdownsOf(s) : DrawdownsOf(s)[k] < 0)
    /\ [][\A s \in Sessions :
            /\ InSession(s) =>
                   /\ StateOf(s)'.session_max_drawdown <= StateOf(s).session_max_drawdown
                   /\ StateOf(s)'.session_peak_balance >= StateOf(s).session_peak_balance
                   /\ StateOf(s)'.session_start_balance = StateOf(s).session_start_balance
            /\ DrawdownsOf(s)' # DrawdownsOf(s) =>
                   /\ EndStep(s)
                   /\ StateOf(s).session_max_drawdown < 0
                   /\ DrawdownsOf(s)' =
                          Append(DrawdownsOf(s), StateOf(s).session_max_drawdown)]_vars

(* a session has stored its drawdown after its peak balance had risen      *)
(* above the balance at its start                                          *)
C38_Witness ==
    \E s \in Sessions :
        /\ ~InSession(s)
        /\ DrawdownsOf(s) # <<>>
        /\ DrawdownsOf(s)[1] = StateOf(s).session_max_drawdown
        /\ StateOf(s).session_peak_balance > StateOf(s).session_start_balance

----------------------------------------------------------------------------
(* The live poller *)

(* the step is an iteration of the main loop that processed the sessions *)
Processing == now' = now /\ fetched' = "candles"

(* the TradingState the session processing of this iteration starts from *)
StartState == check_new_day(state, now)

AllFresh(S) == \A s \in Sessions : S[s] = FreshTrading

(* C23: every trading day starts with fresh session state: at the first    *)
(* session processing of a new trading day, the ranges, breakouts,         *)
(* reversal counts, scale levels and position lists of both sessions have  *)
(* been reset, whatever the timing of the polls.                           *)
C23_FreshEachDay ==
    [][Processing /\ processed # DateOf(now) => AllFresh(StartState)]_vars

(* the open orders of session s among the order calls c *)
OpensOf(c, s) == SelectSeq(c, LAMBDA call : call.op = "open" /\ call.session = s)

(* an iteration of the main loop on a session whose reversal_count had     *)
(* reached 2 made no open order for the session                            *)
NoOpenAfterTwo ==
    [][now' = now =>
          \A s \in Sessions :
              StartState[s].reversal_count >= 2 => OpensOf(calls', s) = <<>>]_vars

ReversalCountAtMostTwo == \A s \in Sessions : state[s].reversal_count <= 2

(* C24: for each session reversal_count never exceeds 2, and once it has   *)
(* reached 2 the session opens no further position that day, by breakout,  *)
(* reversal or scaling, over any sequence of polls.                        *)
C24_StopsAtTwo == []ReversalCountAtMostTwo /\ NoOpenAfterTwo

(* the order calls of kind k that session s made among c, and were rejected *)
RejectedOf(c, s, k) ==
    SelectSeq(c, LAMBDA call : /\ call.op = "open" /\ call.session = s
                               /\ call.kind = k /\ ~call.ok)

(* the levels of session s in S that the latest candle does not trigger *)
Untriggered(S, s, latest_candle) ==
    SelectSeq(S[s].scale_levels,
              LAMBDA level : IF S[s].breakout.direction = "BUY"
                             THEN ~(latest_candle.low <= level)
                             ELSE ~(latest_candle.high >= level))

(* C25: when the broker rejects the order of a triggered scale level, no   *)
(* ticket is added to the session's position list and the level is still   *)
(* removed from the session's remaining scale levels, so that it is not    *)
(* tried again on a later poll.                                            *)
C25_RejectedScaleConsumed ==
    [][now' = now =>
          \A s \in Sessions :
              RejectedOf(calls', s, "SCALE") # <<>> =>
                  /\ state'[s].positions = StartState[s].positions
                  /\ state'[s].scale_levels =
                         Untriggered(StartState, s, rates[Len(rates)])
                  /\ Len(state'[s].scale_levels) < Len(StartState[s].scale_levels)]_vars

(* a scale order of a session that holds a position has just been rejected *)
C25_Witness ==
    \E s \in Sessions :
        /\ RejectedOf(calls, s, "SCALE") # <<>>
        /\ state[s].positions # <<>>
        /\ state[s].breakout # NoBreakout

(* session s of S is where the breakout check places its order: it has a   *)
(* range and no breakout, it may enter at time t, and an entry candle of   *)
(* candles closed outside the range                                        *)
Armed(S, s, candles, t) ==
    /\ S[s].range # NoRange
    /\ S[s].breakout = NoBreakout
    /\ can_enter_trade([state |-> S], s, t)
    /\ check_breakout(candles, S[s].range, LiveEntryStart(s), DateOf(t)) # NoBreakout

InitialOf(c, s) == SelectSeq(OpensOf(c, s), LAMBDA call : call.kind = "INITIAL")

CallsOf(c, s) == SelectSeq(c, LAMBDA call : call.session = s)

AllFailed(c) == c # <<>> /\ \A i \in 1..Len(c) : ~c[i].ok

(* C27: the session state changes only once the outcome of the order call  *)
(* is known: an iteration whose open and close calls for a session all     *)
(* failed leaves the session's reversal count and position list as they    *)
(* were before the calls.                                                  *)
C27_FailedCallKeepsState ==
    [][now' = now =>
          \A s \in Sessions :
              AllFailed(CallsOf(calls', s)) =>
                  /\ state'[s].reversal_count = StartState[s].reversal_count
                  /\ state'[s].positions = StartState[s].positions]_vars

(* C28: a failed fetch of the market data changes no trading state.  When  *)
(* run() aborts, its result is empty, no trade has been opened and the     *)
(* balance is the initial balance.  An iteration of the main loop whose    *)
(* get_candles fails processes no session: the TradingState is the one it  *)
(* found at the fetch, no order call is made, the broker's positions are   *)
(* unchanged, and the loop sleeps POLL_INTERVAL before it fetches again.    *)
C28_FetchFailureChangesNothing ==
    [][/\ pc' = "aborted" =>
             /\ report' = EmptyResult
             /\ all_trades' = <<>> /\ closed_trades' = <<>>
             /\ balance' = balance /\ balance' = INITIAL_BALANCE
             /\ morning_state' = morning_state /\ afternoon_state' = afternoon_state
       /\ now' = now /\ fetched' = "None" =>
             /\ state' = StartState
             /\ calls' = <<>>
             /\ broker' = broker
             /\ processed' = processed
             /\ wake' = now + SleepMinutes(POLL_INTERVAL)]_vars

(* get_candles has just failed while a session held a position and the     *)
(* latest candle had closed outside its range                              *)
C28_Witness ==
    /\ fetched = "None"
    /\ \E s \in Sessions :
          /\ state[s].positions # <<>>
          /\ check_reversal(rates, state[s].range, state[s].breakout) # "None"

(* the open orders among c that the broker accepted *)
Accepted(c) == SelectSeq(c, LAMBDA call : call.op = "open" /\ call.ok)

(* C31: in live mode no new morning-session position (initial, scale or    *)
(* reversal) is opened on a poll whose current time is later than          *)
(* MORNING_ENTRY_CUTOFF.                                                   *)
C31_NoMorningEntryAfterCutoff ==
    TimeOnly(now) > LIVE_MORNING_ENTRY_CUTOFF =>
        Accepted(OpensOf(calls, "MORNING")) = <<>>

(* C39: in live mode every broker position opened by a session and still   *)
(* open at the broker stays in that session's position list until it is    *)
(* closed: a failed close during a reversal or during the afternoon force  *)
(* close does not remove the ticket from the list, so the close can be     *)
(* attempted again.                                                        *)
C39_OpenPositionsStayListed ==
    [][\A s \in Sessions : \A ticket \in broker'.open :
          InSeq(ticket, state[s].positions) => InSeq(ticket, state'[s].positions)]_vars

----------------------------------------------------------------------------
(* The statistics *)

(* the drawdowns of both session lists *)
AllDrawdowns ==
    {morning_session_drawdowns[i] : i \in 1..Len(morning_session_drawdowns)}
        \cup {afternoon_session_drawdowns[i] : i \in 1..Len(afternoon_session_drawdowns)}

Reported == pc = "returned" /\ closed_trades # <<>>

(* C29: the recommended starting capital of generate_statistics is 3 times *)
(* the absolute value of the worst (most negative) single-session drawdown *)
(* over both sessions, INITIAL_BALANCE when no session recorded a negative *)
(* drawdown, and the safe lot size is LOT_SIZE * INITIAL_BALANCE /         *)
(* recommended capital.                                                    *)
C29_RecommendedCapital ==
    Reported =>
        LET summary == report.summary
            negative == {d \in AllDrawdowns : d < 0}
        IN  /\ negative = {} =>
                   summary.recommended_starting_balance = INITIAL_BALANCE
            /\ negative # {} =>
                   \E worst \in negative :
                       /\ \A d \in negative : worst <= d
                       /\ summary.recommended_starting_balance = 3 * (0 - worst)
            /\ summary.safe_lot_size =
                   Quotient(LOT_SIZE * INITIAL_BALANCE,
                            summary.recommended_starting_balance)

(* statistics were generated where the worst drawdown is an afternoon one, *)
(* not the first of its list, and the recommended capital is not the       *)
(* initial balance                                                         *)
C29_Witness ==
    /\ Reported
    /\ Len(afternoon_session_drawdowns) = MaxSessions
    /\ morning_session_drawdowns # <<>>
    /\ afternoon_session_drawdowns[2] < afternoon_session_drawdowns[1]
    /\ afternoon_session_drawdowns[2] < SeqMin(morning_session_drawdowns)
    /\ report.summary.recommended_starting_balance > INITIAL_BALANCE

----------------------------------------------------------------------------
(* The backtest of backtest.py *)

(* C30: in backtest.py, once a session's reversal_count has reached 2 the  *)
(* session stops trading for the day: it is not armed again, it opens no   *)
(* further trade, and its reversal_count never exceeds 2.                  *)
C30_StopsAfterSecondReversal ==
    [][\A s \in Sessions :
          /\ StateOf(s)'.reversal_count <= 2
          /\ StateOf(s).reversal_count >= 2 =>
                 /\ StateOf(s)'.breakout_direction = "None"
                 /\ TradesOf(s)' = TradesOf(s)]_vars

====
